---- MODULE Spec2Model ----
(***************************************************************************)
(* fabric_ceph: the templated apply-user endpoint and its cross-cluster    *)
(* orchestration (utils/create_ceph_user.py), and the authorization step   *)
(* of the export endpoint (response/cluster_user_controller.py).           *)
(*                                                                         *)
(* The Ceph clusters are the environment: each holds, for the user entity, *)
(* a secret and a capability list, and each has its own subvolume path.    *)
(* Every Dashboard or SSH call is one step whose outcome (a value, a       *)
(* non-success status, a raised error) is chosen by the environment.       *)
(***************************************************************************)
EXTENDS Integers, Sequences, FiniteSets, TLC

\* ------------------------------------------------------------ bounds
MaxClusters == 3      \* configurations hold 1..MaxClusters clusters
MaxEntities == 2      \* an export request names 0..MaxEntities entities
MaxHeaderLen == 5     \* an X-Cluster header holds 0..MaxHeaderLen characters

\* ------------------------------------------------------------ values
NoneV == "None"                                  \* Python None
AllNames == <<"a", "b", "c", "d", "e", "f">>     \* cluster names, in YAML order
user_entity == "client.x"
other_entity == "client.admin"
fs_name == "CEPH-FS-01"
subvol_name == "project123"
group_name == NoneV

Range(s) == {s[k] : k \in 1..Len(s)}
IndexOf(s, x) == CHOOSE k \in 1..Len(s) : s[k] = x

\* cfg.cluster: a non-empty ordered mapping (config.py rejects an empty one)
Configs == {SubSeq(AllNames, 1, n) : n \in 1..MaxClusters}

\* the secret a cluster generates itself for an entity it creates; 0: no user
OwnSecret(name) == IndexOf(AllNames, name)
\* the subvolume path of fs_name/subvol_name on a cluster: differs per cluster
PathOf(name) == "/volumes/_nogroup/project123/" \o name

\* ------------------------------------------------------------ _render_caps
\* A cap template is a sequence of pieces: literal text, or a {field}.
Lit(t) == [field |-> FALSE, text |-> t]
Fld(t) == [field |-> TRUE, text |-> t]

Templates ==
  { << [entity |-> "mon", cap |-> <<Lit("allow r")>>],
       [entity |-> "mds", cap |-> <<Lit("allow rw fsname="), Fld("fs"),
                                    Lit(" path="), Fld("path")>>],
       [entity |-> "osd", cap |-> <<Lit("allow rw tag cephfs data="), Fld("fs"),
                                    Lit(" group="), Fld("group"),
                                    Lit(" subvol="), Fld("subvol")>>] >>,
    << [entity |-> "mds", cap |-> <<Lit("allow rw path="), Fld("path")>>],
       [entity |-> "osd", cap |-> <<Lit("allow rw pool="), Fld("pool")>>] >> }

\* the substitutions of lines 147 and 197
Subs(path) ==
  [fs |-> fs_name, group |-> IF group_name = NoneV THEN "" ELSE group_name,
   subvol |-> subvol_name, path |-> path]

\* str.format(**subs): KeyError on a field subs does not define
FormatRaises(cap_tpl, subs) ==
  \E k \in 1..Len(cap_tpl) : cap_tpl[k].field /\ cap_tpl[k].text \notin DOMAIN subs

Format(cap_tpl, subs) ==
  [k \in 1..Len(cap_tpl) |->
     IF cap_tpl[k].field THEN subs[cap_tpl[k].text] ELSE cap_tpl[k].text]

RenderRaises(base_caps, subs) ==
  \E k \in 1..Len(base_caps) : FormatRaises(base_caps[k].cap, subs)

_render_caps(base_caps, subs) ==
  [k \in 1..Len(base_caps) |->
     [entity |-> base_caps[k].entity, cap |-> Format(base_caps[k].cap, subs)]]

\* ------------------------------------------------------------ _resolve_subvol_path
\* get_subvolume_info's answer: a dict, here a sequence of <<key, value>> in
\* insertion order.  Absolute-looking strings are the ones that start with "/".
AbsStrings == {PathOf(AllNames[k]) : k \in 1..Len(AllNames)}
StartsWithSlash(v) == v \in AbsStrings
PreferredKeys == <<"path", "full_path", "mount_path", "mountpoint">>
Raised == "<raised>"

DictHas(info, key) == \E k \in 1..Len(info) : info[k][1] = key
DictGet(info, key) ==
  IF DictHas(info, key) THEN info[CHOOSE k \in 1..Len(info) : info[k][1] = key][2]
  ELSE NoneV

\* the value returned, or Raised for the RuntimeError of line 52
_resolve_subvol_path(info) ==
  LET hits == {k \in 1..Len(PreferredKeys) : StartsWithSlash(DictGet(info, PreferredKeys[k]))}
      vals == {k \in 1..Len(info) : StartsWithSlash(info[k][2])}
  IN IF hits # {}
       THEN DictGet(info, PreferredKeys[CHOOSE k \in hits : \A j \in hits : k <= j])
     ELSE IF vals # {}
       THEN info[CHOOSE k \in vals : \A j \in vals : k <= j][2]
     ELSE Raised

\* what the Dashboard of a cluster may answer for the subvolume
SubvolInfos(name) ==
  { << <<"path", PathOf(name)>> >>,
    << <<"state", "complete">>, <<"full_path", PathOf(name)>> >>,
    << <<"path", "volumes/relative">>, <<"mountpoint", PathOf(name)>> >>,
    << <<"state", "complete">>, <<"data", PathOf(name)>> >>,
    << <<"state", "complete">> >> }

\* ------------------------------------------------------------ user lists
\* One element of list_users(): the Dashboard names the user under one of
\* three keys (line 129 reads them with an "or" chain).
UserDict(ue, e, id) == [user_entity |-> ue, entity |-> e, id |-> id]
Truthy(v) == v # NoneV /\ v # ""
UserKey(u) ==
  IF Truthy(u.user_entity) THEN u.user_entity
  ELSE IF Truthy(u.entity) THEN u.entity
  ELSE u.id
UserDicts(e) ==
  { UserDict(e, NoneV, NoneV), UserDict(NoneV, e, NoneV),
    UserDict("", NoneV, e), UserDict(NoneV, NoneV, e) }
ListContains(users, ent) == \E k \in 1..Len(users) : UserKey(users[k]) = ent

\* ------------------------------------------------------------ HTTP layer
\* cors_error_response (utils/utils.py): a CephException maps by its code, the
\* classified codes 400/401/403/404 to themselves and anything else to 500.
Exc(is_ceph, code, msg) == [is_ceph |-> is_ceph, code |-> code, msg |-> msg]
NoExc == Exc(FALSE, 0, "")
cors_error_response(error) ==
  IF error.is_ceph /\ error.code \in {400, 401, 403, 404} THEN error.code ELSE 500

\* the caller as the token validator and authorize() see it
Callers == {"operator", "member", "noroles", "badtoken"}
TokenRaises(caller) == caller = "badtoken"
\* authorize(), utils/utils.py lines 55-56: a principal without any role
EmptyRoles(caller) == caller = "noroles"
TokenOk(caller) == ~TokenRaises(caller) /\ ~EmptyRoles(caller)
IsOperator(caller) == caller = "operator"
TokenErrors == {Exc(TRUE, 401, "invalid token"), Exc(FALSE, 0, "jwks unreachable")}
\* authorize() returns the cors_401 response as one value (lines 55-56); the
\* handlers unpack three values from it, which raises TypeError
UnpackError == Exc(FALSE, 0, "TypeError: cannot unpack non-iterable Response object")

\* request bodies of applyUserTemplated
BodyCaps ==
  {[islist |-> TRUE, items |-> t] : t \in Templates \cup {<<>>}}
    \cup {[islist |-> FALSE, items |-> <<Lit("mds")>>]}
BodyRenders == {{}, {"fs_name"}, {"subvol_name"}, {"fs_name", "subvol_name"}}
PreferredValues == {NoneV, AllNames[MaxClusters]}
\* lines 27-29 index the body: a key the body lacks raises KeyError
RequiredKeys == {"user_entity", "template_capabilities", "render"}
Bodies ==
  [caps : BodyCaps, render : BodyRenders, preferred : PreferredValues, missing : {{}}]
    \cup {[caps |-> [islist |-> TRUE, items |-> <<>>], render |-> {},
           preferred |-> NoneV, missing |-> {key}] : key \in RequiredKeys}

\* lines 34 and 36 of response/cluster_user_controller.py
TemplateInvalid(tmpl_caps) == tmpl_caps.items = <<>> \/ ~tmpl_caps.islist
RenderInvalid(render) ==
  render = {} \/ "fs_name" \notin render \/ "subvol_name" \notin render
\* line 21 of response/cluster_user_controller.py (and 96, 170, 204)
Unauthorized(is_operator) == ~is_operator

\* ------------------------------------------------------------ state
VARIABLES
  cfg,                \* cfg.cluster, the configured cluster names in order
  dbSecret,           \* per cluster: the entity's secret on it, 0 if no user
  dbCaps,             \* per cluster: the entity's capabilities on it
  tmpFile,            \* per cluster: the temporary keyring file is on its host
  caller, body,       \* the request
  pc, i,              \* position in the handler, loop index
  source_name, created_on_source, updated_on_source,
  caps_applied, errors, imported_to, keyring_bytes,
  caps_here,          \* caps_src / caps_here between render and update
  listed,             \* per cluster: what its list_users() call gave
  calls,              \* per cluster: the calls the run has issued to it, and
                      \* which of them raised
  exc,                \* the exception the controller catches
  response,           \* the HTTP response
  \* the export endpoint
  xpc, xcaller, entities, bastion_login, xresponse, xreached,
  \* the other handlers and the functions they call
  uop,                \* the handler or function that runs, "idle" if none
  upc, ucaller, uin,  \* its position, its caller, its arguments
  ui, uj,             \* its loop indexes: cluster, entity
  uerrors, uresult,   \* its errors map and its result
  uexc, uresponse,    \* the exception it raised, the HTTP status answered
  \* two apply runs in one server process
  runs,               \* per run: its arguments, position and local variables
  remoteFiles,        \* per cluster: the files under /tmp on its admin host
  authDb              \* per cluster and entity: the secret, 0 if no user

applyVars == <<cfg, dbSecret, dbCaps, tmpFile, caller, body, pc, i, source_name,
               created_on_source, updated_on_source, caps_applied, errors,
               imported_to, keyring_bytes, caps_here, listed, calls, exc, response>>
exportVars == <<xpc, xcaller, entities, bastion_login, xresponse, xreached>>
utilVars == <<uop, upc, ucaller, uin, ui, uj, uerrors, uresult, uexc, uresponse>>
concVars == <<runs, remoteFiles, authDb>>
vars == <<applyVars, exportVars, utilVars, concVars>>

clients == Range(cfg)          \* line 121: one DashClient per configured cluster
NoKeyring == [entity |-> "", key |-> 0, caps |-> <<>>]
OldCaps == << [entity |-> "mon", cap |-> <<"allow r">>] >>
NoResponse == [status |-> 0, has_result |-> FALSE, details |-> ""]

\* UserCapsSyncResult.to_dict()
Summary ==
  [source_cluster |-> source_name, created_on_source |-> created_on_source,
   updated_on_source |-> updated_on_source, imported_to |-> imported_to,
   caps_applied |-> caps_applied, errors |-> errors]

ApplyIdle ==
  /\ cfg = <<AllNames[1]>>
  /\ dbSecret = [c \in Range(cfg) |-> 0]
  /\ dbCaps = [c \in Range(cfg) |-> <<>>]
  /\ tmpFile = [c \in Range(cfg) |-> FALSE]
  /\ caller = "operator"
  /\ body = [caps |-> [islist |-> TRUE, items |-> <<>>], render |-> {},
             preferred |-> NoneV, missing |-> {}]
  /\ pc = "idle" /\ i = 0
  /\ source_name = NoneV /\ created_on_source = FALSE /\ updated_on_source = FALSE
  /\ caps_applied = [c \in Range(cfg) |-> <<>>]
  /\ errors = [c \in Range(cfg) |-> NoneV]
  /\ imported_to = <<>> /\ keyring_bytes = NoKeyring /\ caps_here = <<>>
  /\ listed = [c \in Range(cfg) |-> NoneV]
  /\ calls = [c \in Range(cfg) |-> {}]
  /\ exc = NoExc /\ response = NoResponse

ExportIdle ==
  /\ xpc = "idle" /\ xcaller = "operator" /\ entities = <<>>
  /\ bastion_login = <<>> /\ xresponse = 0 /\ xreached = FALSE

ConcIdle == runs = <<>> /\ remoteFiles = <<>> /\ authDb = <<>>

UtilIdle ==
  /\ uop = "idle" /\ upc = "idle" /\ ucaller = "operator" /\ uin = <<>>
  /\ ui = 0 /\ uj = 0 /\ uerrors = <<>> /\ uresult = <<>>
  /\ uexc = NoExc /\ uresponse = 0

Called(c, op) == [calls EXCEPT ![c] = @ \cup {op}]

\* ------------------------------------------------------------ apply_user_templated
\* authorize() raises: the token validator rejected the token (lines 20, 75-77)
ApplyAuthorizeRaises ==
  /\ pc = "authorize" /\ TokenRaises(caller)
  /\ \E e \in TokenErrors : exc' = e
  /\ pc' = "raised"
  /\ UNCHANGED <<cfg, dbSecret, dbCaps, tmpFile, caller, body, i, source_name,
                 created_on_source, updated_on_source, caps_applied, errors,
                 imported_to, keyring_bytes, caps_here, listed, calls, response>>
  /\ UNCHANGED <<exportVars, utilVars, concVars>>

\* line 20: for a principal without roles authorize() returns one value, the
\* unpacking raises TypeError, caught at lines 75-77
ApplyNoRoles ==
  /\ pc = "authorize" /\ ~TokenRaises(caller) /\ EmptyRoles(caller)
  /\ exc' = UnpackError
  /\ pc' = "raised"
  /\ UNCHANGED <<cfg, dbSecret, dbCaps, tmpFile, caller, body, i, source_name,
                 created_on_source, updated_on_source, caps_applied, errors,
                 imported_to, keyring_bytes, caps_here, listed, calls, response>>
  /\ UNCHANGED <<exportVars, utilVars, concVars>>

\* lines 21-22
ApplyNotOperator ==
  /\ pc = "authorize" /\ TokenOk(caller) /\ Unauthorized(IsOperator(caller))
  /\ response' = [status |-> 401, has_result |-> FALSE, details |-> "is not authorized!"]
  /\ pc' = "done"
  /\ UNCHANGED <<cfg, dbSecret, dbCaps, tmpFile, caller, body, i, source_name,
                 created_on_source, updated_on_source, caps_applied, errors,
                 imported_to, keyring_bytes, caps_here, listed, calls, exc>>
  /\ UNCHANGED <<exportVars, utilVars, concVars>>

\* lines 27-29: the body lacks a key, KeyError reaches the except of line 75
ApplyMissingKey ==
  /\ pc = "authorize" /\ TokenOk(caller) /\ ~Unauthorized(IsOperator(caller))
  /\ body.missing # {}
  /\ exc' = Exc(FALSE, 0, "KeyError")
  /\ pc' = "raised"
  /\ UNCHANGED <<cfg, dbSecret, dbCaps, tmpFile, caller, body, i, source_name,
                 created_on_source, updated_on_source, caps_applied, errors,
                 imported_to, keyring_bytes, caps_here, listed, calls, response>>
  /\ UNCHANGED <<exportVars, utilVars, concVars>>

\* lines 33-37
ApplyInvalidBody ==
  /\ pc = "authorize" /\ TokenOk(caller) /\ ~Unauthorized(IsOperator(caller))
  /\ body.missing = {}
  /\ TemplateInvalid(body.caps) \/ RenderInvalid(body.render)
  /\ response' = [status |-> 400, has_result |-> FALSE,
                  details |-> IF TemplateInvalid(body.caps)
                                THEN "template_capabilities must be a non-empty list"
                                ELSE "render.fs_name and render.subvol_name are required"]
  /\ pc' = "done"
  /\ UNCHANGED <<cfg, dbSecret, dbCaps, tmpFile, caller, body, i, source_name,
                 created_on_source, updated_on_source, caps_applied, errors,
                 imported_to, keyring_bytes, caps_here, listed, calls, exc>>
  /\ UNCHANGED <<exportVars, utilVars, concVars>>

\* line 44: the orchestration is called
ApplyDelegate ==
  /\ pc = "authorize" /\ TokenOk(caller) /\ ~Unauthorized(IsOperator(caller))
  /\ body.missing = {}
  /\ ~TemplateInvalid(body.caps) /\ ~RenderInvalid(body.render)
  /\ pc' = "build"
  /\ UNCHANGED <<cfg, dbSecret, dbCaps, tmpFile, caller, body, i, source_name,
                 created_on_source, updated_on_source, caps_applied, errors,
                 imported_to, keyring_bytes, caps_here, listed, calls, exc, response>>
  /\ UNCHANGED <<exportVars, utilVars, concVars>>

\* ------------------------------------------------------------ the orchestration
\* lines 121-122: DashClient.for_cluster logs in to every cluster, in order
BuildClientsOk ==
  /\ pc = "build"
  /\ calls' = [c \in clients |-> calls[c] \cup {"login"}]
  /\ pc' = "select" /\ i' = 1
  /\ UNCHANGED <<cfg, dbSecret, dbCaps, tmpFile, caller, body, source_name,
                 created_on_source, updated_on_source, caps_applied, errors,
                 imported_to, keyring_bytes, caps_here, listed, exc, response>>
  /\ UNCHANGED <<exportVars, utilVars, concVars>>

\* the dict comprehension of line 121 when the login to the n-th cluster
\* raises: the clusters before it were logged in to, the later ones are not
\* contacted
LoginsUpTo(n) ==
  [c \in clients |->
     IF IndexOf(cfg, c) < n THEN calls[c] \cup {"login"}
     ELSE IF IndexOf(cfg, c) = n THEN calls[c] \cup {"login", "login_raised"}
     ELSE calls[c]]

\* a login raises: nothing catches it before the controller's except
BuildClientsRaises ==
  /\ pc = "build"
  /\ \E k \in 1..Len(cfg) : calls' = LoginsUpTo(k)
  /\ exc' = Exc(FALSE, 0, "dashboard login failed")
  /\ pc' = "raised"
  /\ UNCHANGED <<cfg, dbSecret, dbCaps, tmpFile, caller, body, i, source_name,
                 created_on_source, updated_on_source, caps_applied, errors,
                 imported_to, keyring_bytes, caps_here, listed, response>>
  /\ UNCHANGED <<exportVars, utilVars, concVars>>

\* line 136
FallbackFirst(preferred_source, names) == names[1]
FallbackSource(preferred_source, names) ==
  IF (IF Truthy(preferred_source) THEN preferred_source \in Range(names) ELSE FALSE)
    THEN preferred_source
    ELSE names[1]

\* lines 126-134, one iteration: list_users() raises, the loop continues
ListUsersRaises ==
  /\ pc = "select" /\ i <= Len(cfg)
  /\ listed' = [listed EXCEPT ![cfg[i]] = "raised"]
  /\ calls' = Called(cfg[i], "list")
  /\ i' = i + 1
  /\ UNCHANGED <<cfg, dbSecret, dbCaps, tmpFile, caller, body, pc, source_name,
                 created_on_source, updated_on_source, caps_applied, errors,
                 imported_to, keyring_bytes, caps_here, exc, response>>
  /\ UNCHANGED <<exportVars, utilVars, concVars>>

\* the users a cluster has, as its Dashboard names them: the entity is among
\* them when the cluster holds it
UsersOn(c) ==
  IF dbSecret[c] # 0
    THEN {<<UserDict(other_entity, NoneV, NoneV), u>> : u \in UserDicts(user_entity)}
    ELSE {<<UserDict(other_entity, NoneV, NoneV)>>, <<>>}
\* the JSON body of a 200 answer to GET /api/cluster/user: a list, a dict
\* with the list under "data", or anything else (a dict with the list under
\* another key, {"data": null}, {}, null, a string)
JsonShapes == {"list", "data_list", "other"}
Json(shape, items) == [shape |-> shape, items |-> items]
DashAnswers(c) == {Json(shape, users) : shape \in JsonShapes, users \in UsersOn(c)}
\* DashClient.list_users (utils/dash_client.py lines 45-53)
list_users(js) ==
  IF js.shape = "list" THEN js.items
  ELSE IF js.shape = "data_list" THEN js.items
  ELSE <<>>
UserLists(c) == {list_users(js) : js \in DashAnswers(c)}

\* the entity is in the list: this cluster is the source, break
ListUsersFound ==
  /\ pc = "select" /\ i <= Len(cfg)
  /\ \E users \in UserLists(cfg[i]) : ListContains(users, user_entity)
  /\ listed' = [listed EXCEPT ![cfg[i]] = "has"]
  /\ calls' = Called(cfg[i], "list")
  /\ source_name' = cfg[i]
  /\ pc' = "resolve_src"
  /\ UNCHANGED <<cfg, dbSecret, dbCaps, tmpFile, caller, body, i,
                 created_on_source, updated_on_source, caps_applied, errors,
                 imported_to, keyring_bytes, caps_here, exc, response>>
  /\ UNCHANGED <<exportVars, utilVars, concVars>>

ListUsersNotFound ==
  /\ pc = "select" /\ i <= Len(cfg)
  /\ \E users \in UserLists(cfg[i]) : ~ListContains(users, user_entity)
  /\ listed' = [listed EXCEPT ![cfg[i]] = "hasnot"]
  /\ calls' = Called(cfg[i], "list")
  /\ i' = i + 1
  /\ UNCHANGED <<cfg, dbSecret, dbCaps, tmpFile, caller, body, pc, source_name,
                 created_on_source, updated_on_source, caps_applied, errors,
                 imported_to, keyring_bytes, caps_here, exc, response>>
  /\ UNCHANGED <<exportVars, utilVars, concVars>>

\* lines 135-136: no cluster listed the entity
SelectFallback ==
  /\ pc = "select" /\ i > Len(cfg)
  /\ source_name' = FallbackSource(body.preferred, cfg)
  /\ pc' = "resolve_src"
  /\ UNCHANGED <<cfg, dbSecret, dbCaps, tmpFile, caller, body, i,
                 created_on_source, updated_on_source, caps_applied, errors,
                 imported_to, keyring_bytes, caps_here, listed, calls, exc, response>>
  /\ UNCHANGED <<exportVars, utilVars, concVars>>

\* ------------------------------------------------------------ source step
\* line 150
AnyStatus(status) == TRUE
IsSuccess(status) == status \in {200, 201, 202}
\* what update_user_caps may return from a cluster: a success status only
\* when the cluster holds the entity
UpdateStatuses(c) == IF dbSecret[c] # 0 THEN {200, 500} ELSE {404}

\* lines 159, 173, 205: errors[name] = ...
RecordNothing(errs, name, msg) == errs
RecordError(errs, name, msg) == [errs EXCEPT ![name] = msg]

\* line 161: the early return
ContinueAfterSourceFailure == "export"
AfterSourceFailure == "return"

\* lines 157-165: the except block of the source step
SourceFailure ==
  /\ errors' = RecordError(errors, source_name, "source update/create failed")
  /\ imported_to' = <<>>
  /\ pc' = AfterSourceFailure

\* line 42: get_subvolume_info raises
SubvolInfoSourceRaises ==
  /\ pc = "resolve_src"
  /\ calls' = Called(source_name, "resolve")
  /\ SourceFailure
  /\ UNCHANGED <<cfg, dbSecret, dbCaps, tmpFile, caller, body, i, source_name,
                 created_on_source, updated_on_source, caps_applied,
                 keyring_bytes, caps_here, listed, exc, response>>
  /\ UNCHANGED <<exportVars, utilVars, concVars>>

\* line 146: the answer holds no absolute path (line 52 raises)
ResolveSourceRaises ==
  /\ pc = "resolve_src"
  /\ \E info \in SubvolInfos(source_name) : _resolve_subvol_path(info) = Raised
  /\ calls' = Called(source_name, "resolve")
  /\ SourceFailure
  /\ UNCHANGED <<cfg, dbSecret, dbCaps, tmpFile, caller, body, i, source_name,
                 created_on_source, updated_on_source, caps_applied,
                 keyring_bytes, caps_here, listed, exc, response>>
  /\ UNCHANGED <<exportVars, utilVars, concVars>>

\* line 147: a template names a field the substitutions lack (KeyError)
RenderSourceRaises ==
  /\ pc = "resolve_src"
  /\ \E info \in SubvolInfos(source_name) :
       /\ _resolve_subvol_path(info) # Raised
       /\ RenderRaises(body.caps.items, Subs(_resolve_subvol_path(info)))
  /\ calls' = Called(source_name, "resolve")
  /\ SourceFailure
  /\ UNCHANGED <<cfg, dbSecret, dbCaps, tmpFile, caller, body, i, source_name,
                 created_on_source, updated_on_source, caps_applied,
                 keyring_bytes, caps_here, listed, exc, response>>
  /\ UNCHANGED <<exportVars, utilVars, concVars>>

\* lines 146-147
ResolveSourceOk ==
  /\ pc = "resolve_src"
  /\ \E info \in SubvolInfos(source_name) :
       LET path_src == _resolve_subvol_path(info) IN
       /\ path_src # Raised
       /\ ~RenderRaises(body.caps.items, Subs(path_src))
       /\ caps_here' = _render_caps(body.caps.items, Subs(path_src))
  /\ calls' = Called(source_name, "resolve")
  /\ pc' = "update_src"
  /\ UNCHANGED <<cfg, dbSecret, dbCaps, tmpFile, caller, body, i, source_name,
                 created_on_source, updated_on_source, caps_applied, errors,
                 imported_to, keyring_bytes, listed, exc, response>>
  /\ UNCHANGED <<exportVars, utilVars, concVars>>

\* line 149 raises
UpdateSourceRaises ==
  /\ pc = "update_src"
  /\ calls' = Called(source_name, "update")
  /\ SourceFailure
  /\ UNCHANGED <<cfg, dbSecret, dbCaps, tmpFile, caller, body, i, source_name,
                 created_on_source, updated_on_source, caps_applied,
                 keyring_bytes, caps_here, listed, exc, response>>
  /\ UNCHANGED <<exportVars, utilVars, concVars>>

\* lines 149-151, 156
UpdateSourceOk ==
  /\ pc = "update_src"
  /\ \E status \in UpdateStatuses(source_name) : IsSuccess(status)
  /\ calls' = Called(source_name, "update")
  /\ dbCaps' = [dbCaps EXCEPT ![source_name] = caps_here]
  /\ updated_on_source' = TRUE
  /\ caps_applied' = [caps_applied EXCEPT ![source_name] = caps_here]
  /\ pc' = "export"
  /\ UNCHANGED <<cfg, dbSecret, tmpFile, caller, body, i, source_name,
                 created_on_source, errors, imported_to, keyring_bytes, caps_here,
                 listed, exc, response>>
  /\ UNCHANGED <<exportVars, utilVars, concVars>>

\* lines 149-152: a non-success status, create is tried next
UpdateSourceRejected ==
  /\ pc = "update_src"
  /\ \E status \in UpdateStatuses(source_name) : ~IsSuccess(status)
  /\ calls' = Called(source_name, "update")
  /\ pc' = "create_src"
  /\ UNCHANGED <<cfg, dbSecret, dbCaps, tmpFile, caller, body, i, source_name,
                 created_on_source, updated_on_source, caps_applied, errors,
                 imported_to, keyring_bytes, caps_here, listed, exc, response>>
  /\ UNCHANGED <<exportVars, utilVars, concVars>>

\* line 153: create_user raises (always when the entity exists already)
CreateSourceRaises ==
  /\ pc = "create_src"
  /\ calls' = Called(source_name, "create")
  /\ SourceFailure
  /\ UNCHANGED <<cfg, dbSecret, dbCaps, tmpFile, caller, body, i, source_name,
                 created_on_source, updated_on_source, caps_applied,
                 keyring_bytes, caps_here, listed, exc, response>>
  /\ UNCHANGED <<exportVars, utilVars, concVars>>

\* lines 153-156: the cluster creates the entity with a secret of its own
CreateSourceOk ==
  /\ pc = "create_src" /\ dbSecret[source_name] = 0
  /\ calls' = Called(source_name, "create")
  /\ dbSecret' = [dbSecret EXCEPT ![source_name] = OwnSecret(source_name)]
  /\ dbCaps' = [dbCaps EXCEPT ![source_name] = caps_here]
  /\ created_on_source' = TRUE /\ updated_on_source' = TRUE
  /\ caps_applied' = [caps_applied EXCEPT ![source_name] = caps_here]
  /\ pc' = "export"
  /\ UNCHANGED <<cfg, tmpFile, caller, body, i, source_name, errors, imported_to,
                 keyring_bytes, caps_here, listed, exc, response>>
  /\ UNCHANGED <<exportVars, utilVars, concVars>>

\* ------------------------------------------------------------ keyring export
\* line 174: the run goes on without keyring bytes
AbortAfterExportFailure == "return"
AfterExportFailure == "loop"

\* lines 169-170
ExportOk ==
  /\ pc = "export"
  /\ calls' = Called(source_name, "export")
  /\ keyring_bytes' = [entity |-> user_entity, key |-> dbSecret[source_name],
                       caps |-> dbCaps[source_name]]
  /\ imported_to' = <<>>
  /\ pc' = "loop" /\ i' = 1
  /\ UNCHANGED <<cfg, dbSecret, dbCaps, tmpFile, caller, body, source_name,
                 created_on_source, updated_on_source, caps_applied, errors,
                 caps_here, listed, exc, response>>
  /\ UNCHANGED <<exportVars, utilVars, concVars>>

\* lines 171-174
ExportRaises ==
  /\ pc = "export"
  /\ calls' = Called(source_name, "export")
  /\ errors' = RecordError(errors, source_name, "export failed")
  /\ keyring_bytes' = NoKeyring
  /\ imported_to' = <<>>
  /\ pc' = AfterExportFailure /\ i' = 1
  /\ UNCHANGED <<cfg, dbSecret, dbCaps, tmpFile, caller, body, source_name,
                 created_on_source, updated_on_source, caps_applied,
                 caps_here, listed, exc, response>>
  /\ UNCHANGED <<exportVars, utilVars, concVars>>

\* ------------------------------------------------------------ the other clusters
\* line 206: continue with the next cluster
AfterClusterFailure == "loop"

\* lines 203-206: the except block of one iteration
ClusterFailure(msg) ==
  /\ errors' = RecordError(errors, cfg[i], msg)
  /\ i' = i + 1
  /\ pc' = AfterClusterFailure

\* line 193
NotAppended(imported, name) == imported
AppendImported(imported, name) == Append(imported, name)

\* line 179: the loop is over; lines 208-219
LoopEnd ==
  /\ pc = "loop" /\ i > Len(cfg)
  /\ pc' = "return"
  /\ UNCHANGED <<cfg, dbSecret, dbCaps, tmpFile, caller, body, i, source_name,
                 created_on_source, updated_on_source, caps_applied, errors,
                 imported_to, keyring_bytes, caps_here, listed, calls, exc, response>>
  /\ UNCHANGED <<exportVars, utilVars, concVars>>

\* lines 180-181
LoopSkipSource ==
  /\ pc = "loop" /\ i <= Len(cfg) /\ cfg[i] = source_name
  /\ i' = i + 1
  /\ UNCHANGED <<cfg, dbSecret, dbCaps, tmpFile, caller, body, pc, source_name,
                 created_on_source, updated_on_source, caps_applied, errors,
                 imported_to, keyring_bytes, caps_here, listed, calls, exc, response>>
  /\ UNCHANGED <<exportVars, utilVars, concVars>>

\* line 184: no keyring bytes, the import is skipped
LoopNoKeyring ==
  /\ pc = "loop" /\ i <= Len(cfg) /\ cfg[i] # source_name
  /\ keyring_bytes = NoKeyring
  /\ pc' = "resolve_here"
  /\ UNCHANGED <<cfg, dbSecret, dbCaps, tmpFile, caller, body, i, source_name,
                 created_on_source, updated_on_source, caps_applied, errors,
                 imported_to, keyring_bytes, caps_here, listed, calls, exc, response>>
  /\ UNCHANGED <<exportVars, utilVars, concVars>>

\* SSHRunner.run(cmd, check): raises when the command exits non-zero and
\* check is on (the default); line 192 turns check off for the removal
RunRaises(check, exit_ok) == check /\ ~exit_ok

\* lines 186-188: SSHCreds.for_cluster or the connect of SSHRunner raises
SshConnectRaises ==
  /\ pc = "loop" /\ i <= Len(cfg) /\ cfg[i] # source_name
  /\ keyring_bytes # NoKeyring
  /\ calls' = [calls EXCEPT ![cfg[i]] = @ \cup {"ssh_connect", "ssh_raised"}]
  /\ ClusterFailure("ssh connect failed")
  /\ UNCHANGED <<cfg, dbSecret, dbCaps, tmpFile, caller, body, source_name,
                 created_on_source, updated_on_source, caps_applied,
                 imported_to, keyring_bytes, caps_here, listed, exc, response>>
  /\ UNCHANGED <<exportVars, utilVars, concVars>>

\* line 188: the session is open
SshConnectOk ==
  /\ pc = "loop" /\ i <= Len(cfg) /\ cfg[i] # source_name
  /\ keyring_bytes # NoKeyring
  /\ calls' = [calls EXCEPT ![cfg[i]] = @ \cup {"ssh_connect", "ssh_open"}]
  /\ pc' = "ssh_put"
  /\ UNCHANGED <<cfg, dbSecret, dbCaps, tmpFile, caller, body, i, source_name,
                 created_on_source, updated_on_source, caps_applied, errors,
                 imported_to, keyring_bytes, caps_here, listed, exc, response>>
  /\ UNCHANGED <<exportVars, utilVars, concVars>>

\* line 189: put_bytes raises, nothing was written; the with block closes
SshPutRaises ==
  /\ pc = "ssh_put"
  /\ calls' = [calls EXCEPT ![cfg[i]] = @ \cup {"ssh_raised", "ssh_close"}]
  /\ ClusterFailure("put_bytes failed")
  /\ UNCHANGED <<cfg, dbSecret, dbCaps, tmpFile, caller, body, source_name,
                 created_on_source, updated_on_source, caps_applied,
                 imported_to, keyring_bytes, caps_here, listed, exc, response>>
  /\ UNCHANGED <<exportVars, utilVars, concVars>>

\* line 189: the keyring is on the host at remote_tmp
SshPutOk ==
  /\ pc = "ssh_put"
  /\ tmpFile' = [tmpFile EXCEPT ![cfg[i]] = TRUE]
  /\ calls' = Called(cfg[i], "ssh_put")
  /\ pc' = "ssh_import"
  /\ UNCHANGED <<cfg, dbSecret, dbCaps, caller, body, i, source_name,
                 created_on_source, updated_on_source, caps_applied, errors,
                 imported_to, keyring_bytes, caps_here, listed, exc, response>>
  /\ UNCHANGED <<exportVars, utilVars, concVars>>

\* a variant of the handling of a failed import: the failure is recorded
\* and the iteration goes on to the path resolution
SshImportIgnored ==
  /\ pc = "ssh_import" /\ RunRaises(TRUE, FALSE)
  /\ calls' = [calls EXCEPT ![cfg[i]] = @ \cup {"ssh_import", "ssh_raised", "ssh_close"}]
  /\ errors' = RecordError(errors, cfg[i], "auth import failed")
  /\ pc' = "resolve_here"
  /\ UNCHANGED <<cfg, dbSecret, dbCaps, tmpFile, caller, body, i, source_name,
                 created_on_source, updated_on_source, caps_applied,
                 imported_to, keyring_bytes, caps_here, listed, exc, response>>
  /\ UNCHANGED <<exportVars, utilVars, concVars>>

\* line 191: auth import fails, run() raises (check is on); line 192 is
\* skipped and the with block closes the session
SshImportRaises ==
  /\ pc = "ssh_import" /\ RunRaises(TRUE, FALSE)
  /\ calls' = [calls EXCEPT ![cfg[i]] = @ \cup {"ssh_import", "ssh_raised", "ssh_close"}]
  /\ ClusterFailure("auth import failed")
  /\ UNCHANGED <<cfg, dbSecret, dbCaps, tmpFile, caller, body, source_name,
                 created_on_source, updated_on_source, caps_applied,
                 imported_to, keyring_bytes, caps_here, listed, exc, response>>
  /\ UNCHANGED <<exportVars, utilVars, concVars>>

\* line 191: the cluster now holds the keyring's secret and capabilities
SshImportOk ==
  /\ pc = "ssh_import" /\ ~RunRaises(TRUE, TRUE)
  /\ calls' = Called(cfg[i], "ssh_import")
  /\ dbSecret' = [dbSecret EXCEPT ![cfg[i]] = keyring_bytes.key]
  /\ dbCaps' = [dbCaps EXCEPT ![cfg[i]] = keyring_bytes.caps]
  /\ pc' = "ssh_rm"
  /\ UNCHANGED <<cfg, tmpFile, caller, body, i, source_name,
                 created_on_source, updated_on_source, caps_applied, errors,
                 imported_to, keyring_bytes, caps_here, listed, exc, response>>
  /\ UNCHANGED <<exportVars, utilVars, concVars>>

\* lines 192-193: rm -f (check off), the with block ends, the append
SshRemove ==
  /\ pc = "ssh_rm" /\ \A exit_ok \in BOOLEAN : ~RunRaises(FALSE, exit_ok)
  /\ tmpFile' = [tmpFile EXCEPT ![cfg[i]] = FALSE]
  /\ calls' = [calls EXCEPT ![cfg[i]] = @ \cup {"ssh_rm", "ssh_close"}]
  /\ imported_to' = AppendImported(imported_to, cfg[i])
  /\ pc' = "resolve_here"
  /\ UNCHANGED <<cfg, dbSecret, dbCaps, caller, body, i, source_name,
                 created_on_source, updated_on_source, caps_applied, errors,
                 keyring_bytes, caps_here, listed, exc, response>>
  /\ UNCHANGED <<exportVars, utilVars, concVars>>

\* line 196: get_subvolume_info raises
SubvolInfoHereRaises ==
  /\ pc = "resolve_here"
  /\ calls' = [calls EXCEPT ![cfg[i]] = @ \cup {"resolve", "resolve_raised"}]
  /\ ClusterFailure("subvolume info failed")
  /\ UNCHANGED <<cfg, dbSecret, dbCaps, tmpFile, caller, body, source_name,
                 created_on_source, updated_on_source, caps_applied,
                 imported_to, keyring_bytes, caps_here, listed, exc, response>>
  /\ UNCHANGED <<exportVars, utilVars, concVars>>

\* line 196: no absolute path in the answer
ResolveHereRaises ==
  /\ pc = "resolve_here"
  /\ \E info \in SubvolInfos(cfg[i]) : _resolve_subvol_path(info) = Raised
  /\ calls' = [calls EXCEPT ![cfg[i]] = @ \cup {"resolve", "resolve_raised"}]
  /\ ClusterFailure("Could not resolve subvolume path")
  /\ UNCHANGED <<cfg, dbSecret, dbCaps, tmpFile, caller, body, source_name,
                 created_on_source, updated_on_source, caps_applied,
                 imported_to, keyring_bytes, caps_here, listed, exc, response>>
  /\ UNCHANGED <<exportVars, utilVars, concVars>>

\* the Dashboard asked at line 196
SourceDashboard(name) == source_name
DashboardOf(name) == name

\* lines 196-198 (the template rendered on the source, so it renders here)
ResolveHereOk ==
  /\ pc = "resolve_here"
  /\ \E info \in SubvolInfos(DashboardOf(cfg[i])) :
       LET path_here == _resolve_subvol_path(info) IN
       /\ path_here # Raised
       /\ ~RenderRaises(body.caps.items, Subs(path_here))
       /\ caps_here' = _render_caps(body.caps.items, Subs(path_here))
       /\ caps_applied' = [caps_applied EXCEPT ![cfg[i]] =
                             _render_caps(body.caps.items, Subs(path_here))]
  /\ calls' = Called(cfg[i], "resolve")
  /\ pc' = "update_here"
  /\ UNCHANGED <<cfg, dbSecret, dbCaps, tmpFile, caller, body, i, source_name,
                 created_on_source, updated_on_source, errors,
                 imported_to, keyring_bytes, listed, exc, response>>
  /\ UNCHANGED <<exportVars, utilVars, concVars>>

\* line 201 raises
UpdateHereRaises ==
  /\ pc = "update_here"
  /\ calls' = [calls EXCEPT ![cfg[i]] = @ \cup {"update", "update_raised"}]
  /\ ClusterFailure("update_user_caps failed")
  /\ UNCHANGED <<cfg, dbSecret, dbCaps, tmpFile, caller, body, source_name,
                 created_on_source, updated_on_source, caps_applied,
                 imported_to, keyring_bytes, caps_here, listed, exc, response>>
  /\ UNCHANGED <<exportVars, utilVars, concVars>>

\* line 201: the capabilities are overwritten
UpdateHereOk ==
  /\ pc = "update_here"
  /\ \E status \in UpdateStatuses(cfg[i]) : IsSuccess(status)
  /\ calls' = Called(cfg[i], "update")
  /\ dbCaps' = [dbCaps EXCEPT ![cfg[i]] = caps_here]
  /\ i' = i + 1 /\ pc' = "loop"
  /\ UNCHANGED <<cfg, dbSecret, tmpFile, caller, body, source_name,
                 created_on_source, updated_on_source, caps_applied, errors,
                 imported_to, keyring_bytes, caps_here, listed, exc, response>>
  /\ UNCHANGED <<exportVars, utilVars, concVars>>

\* line 201: a non-success status; the status is dropped ("_ =")
UpdateHereRejected ==
  /\ pc = "update_here"
  /\ \E status \in UpdateStatuses(cfg[i]) : ~IsSuccess(status)
  /\ calls' = [calls EXCEPT ![cfg[i]] = @ \cup {"update", "update_rejected"}]
  /\ i' = i + 1 /\ pc' = "loop"
  /\ UNCHANGED <<cfg, dbSecret, dbCaps, tmpFile, caller, body, source_name,
                 created_on_source, updated_on_source, caps_applied, errors,
                 imported_to, keyring_bytes, caps_here, listed, exc, response>>
  /\ UNCHANGED <<exportVars, utilVars, concVars>>

\* ------------------------------------------------------------ the response
\* cors_success_response (utils/utils.py line 77-78): always cors_200
cors_success_response(response_body) == 200

\* lines 60-73 of response/cluster_user_controller.py
ApplyRespond ==
  /\ pc = "return"
  /\ response' = [status |-> cors_success_response(Summary), has_result |-> TRUE,
                  details |-> "", result |-> Summary]
  /\ pc' = "done"
  /\ UNCHANGED <<cfg, dbSecret, dbCaps, tmpFile, caller, body, i, source_name,
                 created_on_source, updated_on_source, caps_applied, errors,
                 imported_to, keyring_bytes, caps_here, listed, calls, exc>>
  /\ UNCHANGED <<exportVars, utilVars, concVars>>

\* lines 75-77
ApplyRespondError ==
  /\ pc = "raised"
  /\ response' = [status |-> cors_error_response(exc), has_result |-> FALSE,
                  details |-> exc.msg]
  /\ pc' = "done"
  /\ UNCHANGED <<cfg, dbSecret, dbCaps, tmpFile, caller, body, i, source_name,
                 created_on_source, updated_on_source, caps_applied, errors,
                 imported_to, keyring_bytes, caps_here, listed, calls, exc>>
  /\ UNCHANGED <<exportVars, utilVars, concVars>>

\* ------------------------------------------------------------ export_users
\* Strings whose characters matter are sequences of characters.
Lower(ch) == IF ch = "A" THEN "a" ELSE IF ch = "B" THEN "b" ELSE ch
lower(str) == [k \in 1..Len(str) |-> Lower(str[k])]
\* Python's  sub in str  on strings
In(sub, str) ==
  \E k \in 0..(Len(str) - Len(sub)) : SubSeq(str, k + 1, k + Len(sub)) = sub

Logins == { <<"a", "b">>, <<"A", "b">>, <<"b">> }
EntityNames ==
  { <<"c", ".", "a", "b">>, <<"c", ".", "A", "B">>, <<"c", ".", "b", "a">>, <<"a">> }
EntityLists == UNION {[1..n -> EntityNames] : n \in 0..MaxEntities}

\* lines 134-138 of response/cluster_user_controller.py: the two 401 returns
ExportRejects(ents, login, is_operator) ==
  \/ Len(ents) = 1 /\ ~In(lower(login), lower(ents[1]))
  \/ Len(ents) > 1 /\ ~is_operator

InitExport ==
  /\ ApplyIdle
  /\ xpc = "authorize"
  /\ xcaller \in Callers
  /\ entities \in EntityLists
  /\ bastion_login \in Logins
  /\ xresponse = 0 /\ xreached = FALSE
  /\ UtilIdle /\ ConcIdle

\* line 133 raises: the token validator rejected the token (lines 152-154)
ExportAuthorizeRaises ==
  /\ xpc = "authorize" /\ TokenRaises(xcaller)
  /\ \E e \in TokenErrors : xresponse' = cors_error_response(e)
  /\ xpc' = "done"
  /\ UNCHANGED <<xcaller, entities, bastion_login, xreached>>
  /\ UNCHANGED <<applyVars, utilVars, concVars>>

\* line 133: for a principal without roles authorize() returns one value, the
\* unpacking raises TypeError, answered by the except of lines 152-154
ExportNoRoles ==
  /\ xpc = "authorize" /\ ~TokenRaises(xcaller) /\ EmptyRoles(xcaller)
  /\ xresponse' = cors_error_response(UnpackError)
  /\ xpc' = "done"
  /\ UNCHANGED <<xcaller, entities, bastion_login, xreached>>
  /\ UNCHANGED <<applyVars, utilVars, concVars>>

\* lines 134-138
ExportUnauthorized ==
  /\ xpc = "authorize" /\ TokenOk(xcaller)
  /\ ExportRejects(entities, bastion_login, IsOperator(xcaller))
  /\ xresponse' = 401
  /\ xpc' = "done"
  /\ UNCHANGED <<xcaller, entities, bastion_login, xreached>>
  /\ UNCHANGED <<applyVars, utilVars, concVars>>

\* line 141: export_users_first_success is called without its required
\* keyring_only argument (export_ceph_user.py lines 65-69): the call raises
\* TypeError before the function body runs, and lines 152-154 answer 500
ExportDelegate ==
  /\ xpc = "authorize" /\ TokenOk(xcaller)
  /\ ~ExportRejects(entities, bastion_login, IsOperator(xcaller))
  /\ xreached' = TRUE
  /\ xresponse' = cors_error_response(Exc(FALSE, 0, "missing argument keyring_only"))
  /\ xpc' = "done"
  /\ UNCHANGED <<xcaller, entities, bastion_login>>
  /\ UNCHANGED <<applyVars, utilVars, concVars>>

\* ------------------------------------------------------------ the operator-only
\* handlers list_users, update_user and delete_user
\* (response/cluster_user_controller.py) and list_users_first_success
\* (utils/export_ceph_user.py)
UserOps == {"list_users", "update_user", "delete_user"}
applyButCalls == <<cfg, dbSecret, dbCaps, tmpFile, caller, body, pc, i, source_name,
                   created_on_source, updated_on_source, caps_applied, errors,
                   imported_to, keyring_bytes, caps_here, listed, exc, response>>

\* no apply request is in progress; the clusters are in any state
ApplyQuiet ==
  /\ cfg \in Configs
  /\ \E ex \in SUBSET Range(cfg) :
       /\ dbSecret = [c \in Range(cfg) |-> IF c \in ex THEN OwnSecret(c) ELSE 0]
       /\ dbCaps = [c \in Range(cfg) |-> IF c \in ex THEN OldCaps ELSE <<>>]
  /\ tmpFile = [c \in Range(cfg) |-> FALSE]
  /\ caller = "operator"
  /\ body = [caps |-> [islist |-> TRUE, items |-> <<>>], render |-> {},
             preferred |-> NoneV, missing |-> {}]
  /\ pc = "idle" /\ i = 0
  /\ source_name = NoneV /\ created_on_source = FALSE /\ updated_on_source = FALSE
  /\ caps_applied = [c \in Range(cfg) |-> <<>>]
  /\ errors = [c \in Range(cfg) |-> NoneV]
  /\ imported_to = <<>> /\ keyring_bytes = NoKeyring /\ caps_here = <<>>
  /\ listed = [c \in Range(cfg) |-> NoneV]
  /\ calls = [c \in Range(cfg) |-> {}]
  /\ exc = NoExc /\ response = NoResponse

NoResult == [cluster |-> NoneV, users |-> <<>>]

InitUser ==
  /\ ApplyQuiet /\ ExportIdle /\ ConcIdle
  /\ uop \in UserOps /\ upc = "authorize" /\ ucaller \in Callers /\ uin = <<>>
  /\ ui = 0 /\ uj = 0
  /\ uerrors = [c \in Range(cfg) |-> NoneV] /\ uresult = NoResult
  /\ uexc = NoExc /\ uresponse = 0

\* authorize() raises (lines 95, 169, 203), the except answers
UserAuthorizeRaises ==
  /\ uop \in UserOps /\ upc = "authorize" /\ TokenRaises(ucaller)
  /\ \E err \in TokenErrors : uexc' = err /\ uresponse' = cors_error_response(err)
  /\ upc' = "done"
  /\ UNCHANGED <<uop, ucaller, uin, ui, uj, uerrors, uresult>>
  /\ UNCHANGED <<applyVars, exportVars, concVars>>

\* lines 95, 169, 203: for a principal without roles authorize() returns one
\* value, the unpacking raises TypeError, answered by the handler's except
UserNoRoles ==
  /\ uop \in UserOps /\ upc = "authorize"
  /\ ~TokenRaises(ucaller) /\ EmptyRoles(ucaller)
  /\ uexc' = UnpackError /\ uresponse' = cors_error_response(UnpackError)
  /\ upc' = "done"
  /\ UNCHANGED <<uop, ucaller, uin, ui, uj, uerrors, uresult>>
  /\ UNCHANGED <<applyVars, exportVars, concVars>>

\* lines 96-97, 170-171, 204-205
UserNotOperator ==
  /\ uop \in UserOps /\ upc = "authorize" /\ TokenOk(ucaller)
  /\ Unauthorized(IsOperator(ucaller))
  /\ uresponse' = 401 /\ upc' = "done"
  /\ UNCHANGED <<uop, ucaller, uin, ui, uj, uerrors, uresult, uexc>>
  /\ UNCHANGED <<applyVars, exportVars, concVars>>

\* lines 100 and 208: delete_user_across_clusters, update_user_across_clusters
\* contact the clusters; the answer is 200, or 500 when the call raises
UserOrchestrate ==
  /\ uop \in {"update_user", "delete_user"} /\ upc = "authorize"
  /\ TokenOk(ucaller) /\ ~Unauthorized(IsOperator(ucaller))
  /\ calls' = [c \in clients |-> calls[c] \cup {"login", uop}]
  /\ \/ upc' = "return" /\ UNCHANGED uexc
     \/ upc' = "raised" /\ uexc' = Exc(FALSE, 0, "failed on all clusters")
  /\ UNCHANGED <<uop, ucaller, uin, ui, uj, uerrors, uresult, uresponse>>
  /\ UNCHANGED <<applyButCalls, exportVars, concVars>>

\* line 174: list_users_first_success is called
UserListDelegate ==
  /\ uop = "list_users" /\ upc = "authorize"
  /\ TokenOk(ucaller) /\ ~Unauthorized(IsOperator(ucaller))
  /\ upc' = "build"
  /\ UNCHANGED <<uop, ucaller, uin, ui, uj, uerrors, uresult, uexc, uresponse>>
  /\ UNCHANGED <<applyVars, exportVars, concVars>>

\* export_ceph_user.py lines 50-51: a client, and a login, per cluster
ListBuildOk ==
  /\ uop = "list_users" /\ upc = "build"
  /\ calls' = [c \in clients |-> calls[c] \cup {"login"}]
  /\ upc' = "try" /\ ui' = 1
  /\ UNCHANGED <<uop, ucaller, uin, uj, uerrors, uresult, uexc, uresponse>>
  /\ UNCHANGED <<applyButCalls, exportVars, concVars>>

\* lines 50-51: a login raises, outside the try of line 55
ListBuildRaises ==
  /\ uop = "list_users" /\ upc = "build"
  /\ \E n \in 1..Len(cfg) : calls' = LoginsUpTo(n)
  /\ uexc' = Exc(FALSE, 0, "dashboard login failed")
  /\ upc' = "raised"
  /\ UNCHANGED <<uop, ucaller, uin, ui, uj, uerrors, uresult, uresponse>>
  /\ UNCHANGED <<applyButCalls, exportVars, concVars>>

\* lines 56-57: the first list that succeeds is returned
ListTryOk ==
  /\ uop = "list_users" /\ upc = "try" /\ ui <= Len(cfg)
  /\ \E users \in UserLists(cfg[ui]) :
       uresult' = [cluster |-> cfg[ui], users |-> users]
  /\ calls' = Called(cfg[ui], "list")
  /\ upc' = "return"
  /\ UNCHANGED <<uop, ucaller, uin, ui, uj, uerrors, uexc, uresponse>>
  /\ UNCHANGED <<applyButCalls, exportVars, concVars>>

\* lines 58-61: the error is kept under the cluster, the next one is tried
ListTryRaises ==
  /\ uop = "list_users" /\ upc = "try" /\ ui <= Len(cfg)
  /\ uerrors' = RecordError(uerrors, cfg[ui], "list_users failed")
  /\ calls' = [calls EXCEPT ![cfg[ui]] = @ \cup {"list", "list_raised"}]
  /\ ui' = ui + 1
  /\ UNCHANGED <<uop, upc, ucaller, uin, uj, uresult, uexc, uresponse>>
  /\ UNCHANGED <<applyButCalls, exportVars, concVars>>

\* line 62: every cluster failed, RuntimeError with the errors map
ListAllFailed ==
  /\ uop = "list_users" /\ upc = "try" /\ ui > Len(cfg)
  /\ uexc' = Exc(FALSE, 0, "list_users failed on all clusters")
  /\ upc' = "raised"
  /\ UNCHANGED <<uop, ucaller, uin, ui, uj, uerrors, uresult, uresponse>>
  /\ UNCHANGED <<applyVars, exportVars, concVars>>

\* lines 103-108, 177-182, 212-217
UserRespond ==
  /\ uop \in UserOps /\ upc = "return"
  /\ uresponse' = cors_success_response(uresult)
  /\ upc' = "done"
  /\ UNCHANGED <<uop, ucaller, uin, ui, uj, uerrors, uresult, uexc>>
  /\ UNCHANGED <<applyVars, exportVars, concVars>>

\* lines 111-113, 183-185, 220-222
UserRespondError ==
  /\ uop \in UserOps /\ upc = "raised"
  /\ uresponse' = cors_error_response(uexc)
  /\ upc' = "done"
  /\ UNCHANGED <<uop, ucaller, uin, ui, uj, uerrors, uresult, uexc>>
  /\ UNCHANGED <<applyVars, exportVars, concVars>>

\* ------------------------------------------------------------ 
\* export_users_first_success (utils/export_ceph_user.py lines 65-124)
ExportFn == "export_users_first_success"
\* the entities argument
EntitySeqs == {<<>>, <<user_entity>>, <<user_entity, other_entity>>}
\* what export_keyring may return for an entity: a keyring text, with or
\* without a key line
Keyrings(ent) == {[entity |-> ent, key |-> "AQBsecret=="], [entity |-> ent, key |-> ""]}
\* keyring_minimal: the key of the keyring text, empty when it has none
keyring_minimal(keyring) == keyring.key
Absent == [entity |-> "", key |-> ""]
NoExports == [ent \in {user_entity, other_entity} |-> Absent]
\* line 120
NoUsersExported(errs, res) ==
  Cardinality({c \in DOMAIN errs : errs[c] # NoneV}) > 0
    /\ Cardinality({c \in DOMAIN res : res[c].set}) = 0

InitExportFn ==
  /\ ApplyQuiet /\ ExportIdle /\ ConcIdle
  /\ \A c \in Range(cfg) : dbSecret[c] = 0
  /\ uop = ExportFn /\ upc = "start" /\ ucaller = "operator"
  /\ uin \in [entities : EntitySeqs, keyring_only : BOOLEAN]
  /\ ui = 0 /\ uj = 0
  /\ uerrors = [c \in Range(cfg) |-> NoneV]
  /\ uresult = [result |-> [c \in Range(cfg) |-> [set |-> FALSE, exported |-> NoExports]],
                exported_entities |-> NoExports]
  /\ uexc = NoExc /\ uresponse = 0

\* lines 88-89
FnEmptyEntities ==
  /\ uop = ExportFn /\ upc = "start" /\ uin.entities = <<>>
  /\ uexc' = Exc(FALSE, 0, "entities must be a non-empty list")
  /\ upc' = "raised"
  /\ UNCHANGED <<uop, ucaller, uin, ui, uj, uerrors, uresult, uresponse>>
  /\ UNCHANGED <<applyVars, exportVars, concVars>>

\* lines 93-94
FnBuildOk ==
  /\ uop = ExportFn /\ upc = "start" /\ uin.entities # <<>>
  /\ calls' = [c \in clients |-> calls[c] \cup {"login"}]
  /\ upc' = "loop" /\ ui' = 1 /\ uj' = 1
  /\ UNCHANGED <<uop, ucaller, uin, uerrors, uresult, uexc, uresponse>>
  /\ UNCHANGED <<applyButCalls, exportVars, concVars>>

\* lines 93-94: a login raises, outside the try of line 99
FnBuildRaises ==
  /\ uop = ExportFn /\ upc = "start" /\ uin.entities # <<>>
  /\ \E n \in 1..Len(cfg) : calls' = LoginsUpTo(n)
  /\ uexc' = Exc(FALSE, 0, "dashboard login failed")
  /\ upc' = "raised"
  /\ UNCHANGED <<uop, ucaller, uin, ui, uj, uerrors, uresult, uresponse>>
  /\ UNCHANGED <<applyButCalls, exportVars, concVars>>

\* lines 103-110: the keyring is kept; with keyring_only it is replaced by
\* its key, and a keyring without a key is an error (line 109) that leaves
\* the keyring of line 104 in the map
FnExportReturns ==
  /\ uop = ExportFn /\ upc = "loop" /\ ui <= Len(cfg) /\ uj <= Len(uin.entities)
  /\ \E keyring \in Keyrings(uin.entities[uj]) :
       LET ent == uin.entities[uj]
           key == keyring_minimal(keyring)
           raises == uin.keyring_only /\ ~Truthy(key)
           kept == IF uin.keyring_only /\ ~raises
                     THEN [entity |-> "", key |-> key] ELSE keyring
       IN /\ uresult' = [uresult EXCEPT !.exported_entities[ent] = kept]
          /\ uerrors' = IF raises
                          THEN RecordError(uerrors, cfg[ui], "key not found in exported keyring")
                          ELSE uerrors
          /\ calls' = [calls EXCEPT ![cfg[ui]] =
                         @ \cup (IF raises THEN {"export", "key_raised"} ELSE {"export"})]
  /\ uj' = uj + 1
  /\ UNCHANGED <<uop, upc, ucaller, uin, ui, uexc, uresponse>>
  /\ UNCHANGED <<applyButCalls, exportVars, concVars>>

\* lines 103, 111-112: export_keyring raises, the error is kept under the
\* cluster and the next entity is tried
FnExportRaises ==
  /\ uop = ExportFn /\ upc = "loop" /\ ui <= Len(cfg) /\ uj <= Len(uin.entities)
  /\ uerrors' = RecordError(uerrors, cfg[ui], "export failed")
  /\ calls' = [calls EXCEPT ![cfg[ui]] = @ \cup {"export", "export_raised"}]
  /\ uj' = uj + 1
  /\ UNCHANGED <<uop, upc, ucaller, uin, ui, uresult, uexc, uresponse>>
  /\ UNCHANGED <<applyButCalls, exportVars, concVars>>

\* line 114, and lines 98-100 for the next cluster
FnClusterDone ==
  /\ uop = ExportFn /\ upc = "loop" /\ ui <= Len(cfg) /\ uj > Len(uin.entities)
  /\ uresult' = [result |-> [uresult.result EXCEPT ![cfg[ui]] =
                               [set |-> TRUE, exported |-> uresult.exported_entities]],
                 exported_entities |-> NoExports]
  /\ ui' = ui + 1 /\ uj' = 1
  /\ UNCHANGED <<uop, upc, ucaller, uin, uerrors, uexc, uresponse>>
  /\ UNCHANGED <<applyVars, exportVars, concVars>>

\* lines 120-124
FnFinish ==
  /\ uop = ExportFn /\ upc = "loop" /\ ui > Len(cfg)
  /\ IF NoUsersExported(uerrors, uresult.result)
       THEN upc' = "raised" /\ uexc' = Exc(FALSE, 0, "No users were exported")
       ELSE upc' = "return" /\ UNCHANGED uexc
  /\ UNCHANGED <<uop, ucaller, uin, ui, uj, uerrors, uresult, uresponse>>
  /\ UNCHANGED <<applyVars, exportVars, concVars>>

NextExportFn ==
  \/ FnEmptyEntities \/ FnBuildOk \/ FnBuildRaises
  \/ FnExportReturns \/ FnExportRaises \/ FnClusterDone \/ FnFinish

SpecExportFn == InitExportFn /\ [][NextExportFn]_vars

\* ------------------------------------------------------------ 
\* ordered_cluster_names (utils/utils.py lines 81-90).  The header is a
\* sequence of characters; cluster names are one character long.
HeaderChars == {"a", "b", "z", ",", " "}
Headers ==
  {[present |-> FALSE, text |-> <<>>]}
    \cup {[present |-> TRUE, text |-> t] :
            t \in UNION {[1..n -> HeaderChars] : n \in 0..MaxHeaderLen}}

\* str.strip()
RECURSIVE LStrip(_)
LStrip(str) == IF str # <<>> /\ Head(str) = " " THEN LStrip(Tail(str)) ELSE str
RECURSIVE RStrip(_)
RStrip(str) ==
  IF str # <<>> /\ str[Len(str)] = " " THEN RStrip(SubSeq(str, 1, Len(str) - 1)) ELSE str
Strip(str) == LStrip(RStrip(str))

\* str.split(",")
RECURSIVE Split(_)
Split(str) ==
  IF \A p \in 1..Len(str) : str[p] # "," THEN <<str>>
  ELSE LET p == CHOOSE q \in 1..Len(str) :
                  str[q] = "," /\ \A r \in 1..(q - 1) : str[r] # ","
       IN <<SubSeq(str, 1, p - 1)>> \o Split(SubSeq(str, p + 1, Len(str)))

\* the string of a character sequence, as far as cluster names go
NameOf(token) == IF Len(token) = 1 THEN token[1] ELSE "<unconfigured>"

\* line 90: the header's names, or every cluster when none is left
NoFallback(names, all) == names
OrAll(names, all) == IF names # <<>> THEN names ELSE all

ordered_cluster_names(config, header) ==
  LET hdr == Strip(IF header.present THEN header.text ELSE <<>>)
      parts == Split(hdr)
      stripped == [p \in 1..Len(parts) |-> Strip(parts[p])]
      NonEmpty(x) == x # <<>>
      wanted == SelectSeq(stripped, NonEmpty)
      names == [p \in 1..Len(wanted) |-> NameOf(wanted[p])]
      Configured(n) == n \in Range(config)
  IN IF hdr = <<>> THEN config
     ELSE OrAll(SelectSeq(names, Configured), config)

InitOrder ==
  /\ ApplyQuiet /\ ExportIdle /\ ConcIdle
  /\ \A c \in Range(cfg) : dbSecret[c] = 0
  /\ uop = "ordered_cluster_names" /\ upc = "start" /\ ucaller = "operator"
  /\ uin \in [header : Headers]
  /\ ui = 0 /\ uj = 0 /\ uerrors = <<>> /\ uresult = <<>>
  /\ uexc = NoExc /\ uresponse = 0

OrderedNames ==
  /\ uop = "ordered_cluster_names" /\ upc = "start"
  /\ uresult' = ordered_cluster_names(cfg, uin.header)
  /\ upc' = "return"
  /\ UNCHANGED <<uop, ucaller, uin, ui, uj, uerrors, uexc, uresponse>>
  /\ UNCHANGED <<applyVars, exportVars, concVars>>

NextOrder == OrderedNames

SpecOrder == InitOrder /\ [][NextOrder]_vars

\* ------------------------------------------------------------ 
\* list_cluster_info (response/cluster_info_controller.py lines 49-107)
InfoOp == "list_cluster_info"
FsidOf(name) == "fsid-" \o name
Addr(type, addr) == [type |-> type, addr |-> addr]
Mon(name, rank, addrvec, public_addr) ==
  [name |-> name, rank |-> rank, addrvec |-> addrvec, public_addr |-> public_addr]
\* /api/monitor payloads: the mons of the monmap
MonMaps(name) ==
  { <<Mon("m1", "0", <<Addr("v2", name \o ":3300"), Addr("v1", name \o ":6789")>>, NoneV),
      Mon(NoneV, "1", <<Addr("v2", name \o ":3301")>>, NoneV)>>,
    <<Mon("m1", "0", <<>>, name \o ":6789/0")>>,
    <<>> }

\* lines 11-34
AddrOfType(addrvec, type) ==
  LET hits == {p \in 1..Len(addrvec) : addrvec[p].type = type}
  IN IF hits = {} THEN NoneV
     ELSE addrvec[CHOOSE p \in hits : \A q \in hits : q <= p].addr
_parse_mon_map(mons) ==
  [p \in 1..Len(mons) |->
     [name |-> IF Truthy(mons[p].name) THEN mons[p].name ELSE mons[p].rank,
      v2 |-> AddrOfType(mons[p].addrvec, "v2"),
      v1 |-> IF mons[p].addrvec = <<>> THEN mons[p].public_addr
             ELSE AddrOfType(mons[p].addrvec, "v1")]]

\* lines 36-47: the parts that are joined with blanks
RECURSIVE _format_mon_host(_)
_format_mon_host(mons) ==
  IF mons = <<>> THEN <<>>
  ELSE LET m == Head(mons)
           part == IF Truthy(m.v2) /\ Truthy(m.v1) THEN <<<<"v2", m.v2, "v1", m.v1>>>>
                   ELSE IF Truthy(m.v2) THEN <<<<"v2", m.v2>>>>
                   ELSE IF Truthy(m.v1) THEN <<<<"v1", m.v1>>>>
                   ELSE <<>>
       IN part \o _format_mon_host(Tail(mons))

\* lines 75-82 and 85-92
InfoItem(name, fsid, mons) ==
  [cluster |-> name, fsid |-> fsid, mons |-> mons,
   mon_host |-> _format_mon_host(mons),
   ceph_conf_minimal |-> <<"fsid", fsid, "mon_host", _format_mon_host(mons)>>,
   error |-> NoneV]
ErrorItem(name, msg) ==
  [cluster |-> name, fsid |-> NoneV, mons |-> <<>>, mon_host |-> <<>>,
   ceph_conf_minimal |-> <<>>, error |-> msg]
\* lines 83-92: the except block appends the item, the loop goes on
InfoAfterFailure == "loop"

InitInfo ==
  /\ ApplyQuiet /\ ExportIdle /\ ConcIdle
  /\ \A c \in Range(cfg) : dbSecret[c] = 0
  /\ uop = InfoOp /\ upc = "build" /\ ucaller \in {"operator", "member"}
  /\ uin = <<>> /\ ui = 0 /\ uj = 0 /\ uerrors = <<>> /\ uresult = <<>>
  /\ uexc = NoExc /\ uresponse = 0

\* lines 61-62
InfoBuildOk ==
  /\ uop = InfoOp /\ upc = "build"
  /\ calls' = [c \in clients |-> calls[c] \cup {"login"}]
  /\ upc' = "loop" /\ ui' = 1
  /\ UNCHANGED <<uop, ucaller, uin, uj, uerrors, uresult, uexc, uresponse>>
  /\ UNCHANGED <<applyButCalls, exportVars, concVars>>

\* lines 61-62: a login raises, outside the try of line 65
InfoBuildRaises ==
  /\ uop = InfoOp /\ upc = "build"
  /\ \E n \in 1..Len(cfg) : calls' = LoginsUpTo(n)
  /\ uexc' = Exc(FALSE, 0, "dashboard login failed")
  /\ upc' = "raised"
  /\ UNCHANGED <<uop, ucaller, uin, ui, uj, uerrors, uresult, uresponse>>
  /\ UNCHANGED <<applyButCalls, exportVars, concVars>>

\* lines 66-82
InfoFetchOk ==
  /\ uop = InfoOp /\ upc = "loop" /\ ui <= Len(cfg)
  /\ \E mon_json \in MonMaps(cfg[ui]) :
       uresult' = Append(uresult, InfoItem(cfg[ui], FsidOf(cfg[ui]), _parse_mon_map(mon_json)))
  /\ calls' = [calls EXCEPT ![cfg[ui]] = @ \cup {"fsid", "monitor"}]
  /\ ui' = ui + 1
  /\ UNCHANGED <<uop, upc, ucaller, uin, uj, uerrors, uexc, uresponse>>
  /\ UNCHANGED <<applyButCalls, exportVars, concVars>>

\* str(e), line 91: the message of the exception, empty for an exception
\* raised without arguments
str(e) == e.msg
\* what a Dashboard call may raise: an HTTP error of raise_for_status, or an
\* exception without a message (a timeout raised without arguments)
FetchErrors == {Exc(FALSE, 0, "500 Server Error"), Exc(FALSE, 0, "")}
\* line 29: m.get on a mons element that is no object
ParseError == Exc(FALSE, 0, "'str' object has no attribute 'get'")

\* lines 83-92: the except block appends the item with str(e)
InfoFailure(e) ==
  /\ uresult' = Append(uresult, ErrorItem(cfg[ui], str(e)))
  /\ upc' = InfoAfterFailure
  /\ ui' = ui + 1
  /\ UNCHANGED <<uop, ucaller, uin, uj, uerrors, uexc, uresponse>>
  /\ UNCHANGED <<applyButCalls, exportVars, concVars>>

\* line 66: get_cluster_fsid raises
InfoFsidRaises ==
  /\ uop = InfoOp /\ upc = "loop" /\ ui <= Len(cfg)
  /\ calls' = [calls EXCEPT ![cfg[ui]] = @ \cup {"fsid", "info_raised"}]
  /\ \E e \in FetchErrors : InfoFailure(e)

\* line 67: get_monitor_map raises
InfoMonRaises ==
  /\ uop = InfoOp /\ upc = "loop" /\ ui <= Len(cfg)
  /\ calls' = [calls EXCEPT ![cfg[ui]] = @ \cup {"fsid", "monitor", "info_raised"}]
  /\ \E e \in FetchErrors : InfoFailure(e)

\* line 68: the payload's mons are not objects, m.get raises
InfoParseRaises ==
  /\ uop = InfoOp /\ upc = "loop" /\ ui <= Len(cfg)
  /\ calls' = [calls EXCEPT ![cfg[ui]] = @ \cup {"fsid", "monitor", "info_raised"}]
  /\ InfoFailure(ParseError)

\* lines 94-103
InfoRespond ==
  /\ uop = InfoOp /\ upc = "loop" /\ ui > Len(cfg)
  /\ uresponse' = cors_success_response(uresult)
  /\ upc' = "done"
  /\ UNCHANGED <<uop, ucaller, uin, ui, uj, uerrors, uresult, uexc>>
  /\ UNCHANGED <<applyVars, exportVars, concVars>>

\* lines 105-107
InfoRespondError ==
  /\ uop = InfoOp /\ upc = "raised"
  /\ uresponse' = cors_error_response(uexc)
  /\ upc' = "done"
  /\ UNCHANGED <<uop, ucaller, uin, ui, uj, uerrors, uresult, uexc>>
  /\ UNCHANGED <<applyVars, exportVars, concVars>>

NextInfo ==
  \/ InfoBuildOk \/ InfoBuildRaises
  \/ InfoFetchOk \/ InfoFsidRaises \/ InfoMonRaises \/ InfoParseRaises
  \/ InfoRespond \/ InfoRespondError

SpecInfo == InitInfo /\ [][NextInfo]_vars

\* ------------------------------------------------------------ 
\* _ssh_params_for_cluster (response/cluster_user_helper.py lines 81-108)
SshParamsFn == "_ssh_params_for_cluster"
Unset == NoneV
\* int(): the texts that are numbers
Numbers == [x \in {"22", "2200", "2201", "2222"} |->
              CASE x = "22" -> 22 [] x = "2200" -> 2200
                [] x = "2201" -> 2201 [] x = "2222" -> 2222]
IntRaises(text) == text \notin DOMAIN Numbers
int(text) == Numbers[text]
\* os.path.expanduser
Home == "/home/svc"
expanduser(path) ==
  CASE path = "~/.ssh/id_rsa" -> Home \o "/.ssh/id_rsa"
    [] path = "~/keys/env" -> Home \o "/keys/env"
    [] OTHER -> path
\* os.getenv(name, default): the variable when it is set
getenv(value, default) == IF value # Unset THEN value ELSE default
\* a or b
Or(x, y) == IF Truthy(x) THEN x ELSE y

SshEnvs ==
  [HOST : {Unset, "admin.example.org"}, PORT : {Unset, "2222", "abc"},
   USER : {Unset, "envuser"}, KEY : {Unset, "/etc/keys/env", "~/keys/env"},
   PASSWORD : {Unset, "", "s3cret"}]
DashSsh == [ssh_user : {NoneV, "dashuser"}, ssh_key : {NoneV, "/etc/keys/dash"},
            ssh_port : {NoneV, "2200", "abc"}]
RgwSsh == [ssh_user : {NoneV, "rgwuser"}, ssh_key : {NoneV, "/etc/keys/rgw"},
           ssh_port : {NoneV, "2201"}]
EndpointHosts == {NoneV, "ceph.example.org"}

\* lines 97-102: a YAML port replaces the port read so far
PortWithYaml(port, yaml_port) ==
  IF yaml_port # NoneV /\ ~IntRaises(yaml_port) THEN int(yaml_port) ELSE port
\* line 108: the key path is dropped when a password is set
KeyUnlessPassword(password, key_path) ==
  IF Truthy(password) THEN NoneV ELSE expanduser(key_path)

_ssh_params_for_cluster(env, dashboard, rgw_admin, hostname) ==
  LET dash_host == Or(hostname, "localhost")
      host == getenv(env.HOST, dash_host)
      port == int(getenv(env.PORT, "22"))
      yaml_user == Or(dashboard.ssh_user, rgw_admin.ssh_user)
      yaml_key == Or(dashboard.ssh_key, rgw_admin.ssh_key)
      yaml_port == Or(dashboard.ssh_port, rgw_admin.ssh_port)
      user == getenv(env.USER, Or(yaml_user, "root"))
      key_path == getenv(env.KEY, Or(yaml_key, expanduser("~/.ssh/id_rsa")))
      password == env.PASSWORD
  IN [host |-> host, port |-> PortWithYaml(port, yaml_port), user |-> user,
      key_path |-> KeyUnlessPassword(password, key_path), password |-> password]

NoParams == [host |-> NoneV, port |-> 0, user |-> NoneV, key_path |-> NoneV,
             password |-> NoneV]

InitSshParams ==
  /\ ApplyQuiet /\ ExportIdle /\ ConcIdle
  /\ Len(cfg) = 1 /\ \A c \in Range(cfg) : dbSecret[c] = 0
  /\ uop = SshParamsFn /\ upc = "start" /\ ucaller = "operator"
  /\ uin \in [env : SshEnvs, dashboard : DashSsh, rgw_admin : RgwSsh,
               hostname : EndpointHosts]
  /\ ui = 0 /\ uj = 0 /\ uerrors = <<>> /\ uresult = NoParams
  /\ uexc = NoExc /\ uresponse = 0

\* line 93: int() of a port variable that is no number raises ValueError
SshParamsRaises ==
  /\ uop = SshParamsFn /\ upc = "start"
  /\ IntRaises(getenv(uin.env.PORT, "22"))
  /\ uexc' = Exc(FALSE, 0, "invalid literal for int()")
  /\ upc' = "raised"
  /\ UNCHANGED <<uop, ucaller, uin, ui, uj, uerrors, uresult, uresponse>>
  /\ UNCHANGED <<applyVars, exportVars, concVars>>

SshParamsReturn ==
  /\ uop = SshParamsFn /\ upc = "start"
  /\ ~IntRaises(getenv(uin.env.PORT, "22"))
  /\ uresult' = _ssh_params_for_cluster(uin.env, uin.dashboard, uin.rgw_admin,
                                         uin.hostname)
  /\ upc' = "return"
  /\ UNCHANGED <<uop, ucaller, uin, ui, uj, uerrors, uexc, uresponse>>
  /\ UNCHANGED <<applyVars, exportVars, concVars>>

NextSshParams == SshParamsRaises \/ SshParamsReturn

SpecSshParams == InitSshParams /\ [][NextSshParams]_vars

\* ------------------------------------------------------------ 
\* Two runs of ensure_user_across_clusters_with_cluster_paths
\* (utils/create_ceph_user.py lines 97-219) in one server process, interleaved
\* at the Dashboard and SSH calls.  The clusters answer from their state:
\* transport failures and the capabilities written are followed in the
\* single-run specification above.
Runs == {1, 2}
\* an entity as its pieces, the dots and underscores apart
EntityAB == <<"client", ".", "a", ".", "b">>
EntityA_B == <<"client", ".", "a", "_", "b">>
EntityY == <<"client", ".", "y">>
RunEntities == {EntityAB, EntityA_B, EntityY}
Pids == {"4711", "4712"}
\* str.replace
replace(text, old, new) ==
  [p \in 1..Len(text) |-> IF text[p] = old THEN new ELSE text[p]]
\* line 187
remote_tmp(entity, pid) ==
  <<"/tmp/">> \o replace(entity, ".", "_") \o <<".keyring.", pid>>
RemotePaths == {remote_tmp(e, p) : e \in RunEntities, p \in Pids}
NoFile == [entity |-> <<>>, key |-> 0]
\* the key a cluster generates when a run creates the entity on it
NewSecret(name, r) == 10 * IndexOf(AllNames, name) + r
NoErrorsYet == [c \in Range(cfg) |-> NoneV]

InitTwoRuns ==
  /\ ApplyQuiet /\ ExportIdle /\ UtilIdle
  /\ cfg = <<AllNames[1], AllNames[2]>>
  /\ \A c \in Range(cfg) : dbSecret[c] = 0
  /\ \E ex \in SUBSET Range(cfg) :
       authDb = [c \in Range(cfg) |-> [e \in RunEntities |->
                    IF e = EntityAB /\ c \in ex THEN OwnSecret(c) ELSE 0]]
  /\ remoteFiles = [c \in Range(cfg) |-> [path \in RemotePaths |-> NoFile]]
  /\ \E e2 \in RunEntities, p2 \in Pids, pref1, pref2 \in {NoneV, AllNames[2]} :
       runs = [r \in Runs |->
                 [pc |-> "select", i |-> 1,
                  user_entity |-> IF r = 1 THEN EntityAB ELSE e2,
                  pid |-> IF r = 1 THEN "4711" ELSE p2,
                  preferred_source |-> IF r = 1 THEN pref1 ELSE pref2,
                  source_name |-> NoneV, created_on_source |-> FALSE,
                  updated_on_source |-> FALSE, keyring_bytes |-> NoFile,
                  imported_to |-> <<>>, errors |-> NoErrorsYet]]

RunFrame == UNCHANGED <<applyVars, exportVars, utilVars>>
Here(r) == cfg[runs[r].i]
PathOfRun(r) == remote_tmp(runs[r].user_entity, runs[r].pid)

\* the entities the Dashboard of the run's current cluster names
RunUsersOn(r) ==
  IF authDb[Here(r)][runs[r].user_entity] # 0 THEN <<runs[r].user_entity>> ELSE <<>>

\* lines 126-131: list_users on the next cluster; the source is found when
\* the list that DashClient.list_users reads from the answer has the entity
RunListUsers(r) ==
  /\ runs[r].pc = "select" /\ runs[r].i <= Len(cfg)
  /\ \E shape \in JsonShapes :
       LET users == list_users(Json(shape, RunUsersOn(r))) IN
       runs' = [runs EXCEPT ![r] =
         IF \E n \in 1..Len(users) : users[n] = runs[r].user_entity
           THEN [@ EXCEPT !.source_name = Here(r), !.pc = "update_src"]
           ELSE [@ EXCEPT !.i = @ + 1]]
  /\ UNCHANGED <<remoteFiles, authDb>> /\ RunFrame

\* lines 135-136
RunSelectFallback(r) ==
  /\ runs[r].pc = "select" /\ runs[r].i > Len(cfg)
  /\ runs' = [runs EXCEPT ![r] =
       [@ EXCEPT !.source_name = FallbackSource(runs[r].preferred_source, cfg),
                 !.pc = "update_src"]]
  /\ UNCHANGED <<remoteFiles, authDb>> /\ RunFrame

\* lines 146-152: update_user_caps on the source; a cluster that does not hold
\* the entity answers with a non-success status
RunUpdateSource(r) ==
  /\ runs[r].pc = "update_src"
  /\ LET status == IF authDb[runs[r].source_name][runs[r].user_entity] # 0
                     THEN 200 ELSE 404
     IN runs' = [runs EXCEPT ![r] =
          IF IsSuccess(status)
            THEN [@ EXCEPT !.updated_on_source = TRUE, !.pc = "export"]
            ELSE [@ EXCEPT !.pc = "create_src"]]
  /\ UNCHANGED <<remoteFiles, authDb>> /\ RunFrame

\* lines 153-156: create_user; the cluster generates the key
RunCreateSourceOk(r) ==
  /\ runs[r].pc = "create_src"
  /\ authDb[runs[r].source_name][runs[r].user_entity] = 0
  /\ authDb' = [authDb EXCEPT ![runs[r].source_name][runs[r].user_entity] =
                  NewSecret(runs[r].source_name, r)]
  /\ runs' = [runs EXCEPT ![r] =
       [@ EXCEPT !.created_on_source = TRUE, !.updated_on_source = TRUE,
                 !.pc = "export"]]
  /\ UNCHANGED remoteFiles /\ RunFrame

\* lines 153, 157-165: the entity exists by now, create_user raises, the run
\* returns early
RunCreateSourceRaises(r) ==
  /\ runs[r].pc = "create_src"
  /\ authDb[runs[r].source_name][runs[r].user_entity] # 0
  /\ runs' = [runs EXCEPT ![r] =
       [@ EXCEPT !.errors = RecordError(@, runs[r].source_name,
                                        "source update/create failed"),
                 !.pc = "done"]]
  /\ UNCHANGED <<remoteFiles, authDb>> /\ RunFrame

\* lines 168-170
RunExport(r) ==
  /\ runs[r].pc = "export"
  /\ runs' = [runs EXCEPT ![r] =
       [@ EXCEPT !.keyring_bytes =
                   [entity |-> runs[r].user_entity,
                    key |-> authDb[runs[r].source_name][runs[r].user_entity]],
                 !.i = 1, !.pc = "loop"]]
  /\ UNCHANGED <<remoteFiles, authDb>> /\ RunFrame

\* lines 179-181
RunLoopSkipSource(r) ==
  /\ runs[r].pc = "loop" /\ runs[r].i <= Len(cfg)
  /\ Here(r) = runs[r].source_name
  /\ runs' = [runs EXCEPT ![r] = [@ EXCEPT !.i = @ + 1]]
  /\ UNCHANGED <<remoteFiles, authDb>> /\ RunFrame

\* lines 208-219
RunLoopEnd(r) ==
  /\ runs[r].pc = "loop" /\ runs[r].i > Len(cfg)
  /\ runs' = [runs EXCEPT ![r] = [@ EXCEPT !.pc = "done"]]
  /\ UNCHANGED <<remoteFiles, authDb>> /\ RunFrame

\* lines 184-189: put_bytes writes the keyring to remote_tmp
RunSshPut(r) ==
  /\ runs[r].pc = "loop" /\ runs[r].i <= Len(cfg)
  /\ Here(r) # runs[r].source_name
  /\ remoteFiles' = [remoteFiles EXCEPT ![Here(r)][PathOfRun(r)] =
                       runs[r].keyring_bytes]
  /\ runs' = [runs EXCEPT ![r] = [@ EXCEPT !.pc = "ssh_import"]]
  /\ UNCHANGED authDb /\ RunFrame

\* line 191: auth import -i remote_tmp takes the entity and key of the file
RunSshImportOk(r) ==
  /\ runs[r].pc = "ssh_import"
  /\ remoteFiles[Here(r)][PathOfRun(r)] # NoFile
  /\ LET file == remoteFiles[Here(r)][PathOfRun(r)]
     IN authDb' = [authDb EXCEPT ![Here(r)][file.entity] = file.key]
  /\ runs' = [runs EXCEPT ![r] = [@ EXCEPT !.pc = "ssh_rm"]]
  /\ UNCHANGED remoteFiles /\ RunFrame

\* lines 191, 203-206: the file is gone, the command fails and run() raises
RunSshImportRaises(r) ==
  /\ runs[r].pc = "ssh_import"
  /\ remoteFiles[Here(r)][PathOfRun(r)] = NoFile
  /\ RunRaises(TRUE, FALSE)
  /\ runs' = [runs EXCEPT ![r] =
       [@ EXCEPT !.errors = RecordError(@, Here(r), "auth import failed"),
                 !.i = @ + 1, !.pc = "loop"]]
  /\ UNCHANGED <<remoteFiles, authDb>> /\ RunFrame

\* lines 192-193: rm -f remote_tmp, the append
RunSshRemove(r) ==
  /\ runs[r].pc = "ssh_rm"
  /\ remoteFiles' = [remoteFiles EXCEPT ![Here(r)][PathOfRun(r)] = NoFile]
  /\ runs' = [runs EXCEPT ![r] =
       [@ EXCEPT !.imported_to = AppendImported(@, Here(r)),
                 !.pc = "update_here"]]
  /\ UNCHANGED authDb /\ RunFrame

\* lines 196-201: the overwrite of the capabilities, its status dropped
RunUpdateHere(r) ==
  /\ runs[r].pc = "update_here"
  /\ runs' = [runs EXCEPT ![r] = [@ EXCEPT !.i = @ + 1, !.pc = "loop"]]
  /\ UNCHANGED <<remoteFiles, authDb>> /\ RunFrame

NextTwoRuns ==
  \E r \in Runs :
    \/ RunListUsers(r) \/ RunSelectFallback(r)
    \/ RunUpdateSource(r) \/ RunCreateSourceOk(r) \/ RunCreateSourceRaises(r)
    \/ RunExport(r) \/ RunLoopSkipSource(r) \/ RunLoopEnd(r)
    \/ RunSshPut(r) \/ RunSshImportOk(r) \/ RunSshImportRaises(r)
    \/ RunSshRemove(r) \/ RunUpdateHere(r)

SpecTwoRuns == InitTwoRuns /\ [][NextTwoRuns]_vars

InitApplyWith(bodies) ==
  /\ cfg \in Configs
  /\ \E ex \in SUBSET Range(cfg) :
       /\ dbSecret = [c \in Range(cfg) |-> IF c \in ex THEN OwnSecret(c) ELSE 0]
       /\ dbCaps = [c \in Range(cfg) |-> IF c \in ex THEN OldCaps ELSE <<>>]
  /\ tmpFile = [c \in Range(cfg) |-> FALSE]
  /\ caller \in Callers
  /\ body \in bodies
  /\ pc = "authorize" /\ i = 0
  /\ source_name = NoneV /\ created_on_source = FALSE /\ updated_on_source = FALSE
  /\ caps_applied = [c \in Range(cfg) |-> <<>>]
  /\ errors = [c \in Range(cfg) |-> NoneV]
  /\ imported_to = <<>> /\ keyring_bytes = NoKeyring /\ caps_here = <<>>
  /\ listed = [c \in Range(cfg) |-> NoneV]
  /\ calls = [c \in Range(cfg) |-> {}]
  /\ exc = NoExc /\ response = NoResponse
  /\ ExportIdle /\ UtilIdle /\ ConcIdle

InitApply == InitApplyWith(Bodies)

\* apply_user_templated with its two options: the X-Cluster header (the
\* x_cluster parameter of line 16) and sync_across_clusters (line 30); a body
\* without the key has the default True
NoHeader == [present |-> FALSE, text |-> <<>>]
Header(text) == [present |-> TRUE, text |-> text]
ApplyOptions ==
  { [sync |-> TRUE, x_cluster |-> NoHeader],
    [sync |-> FALSE, x_cluster |-> NoHeader],
    [sync |-> TRUE, x_cluster |-> Header(<<"b">>)],
    [sync |-> TRUE, x_cluster |-> Header(<<"b", ",", "a">>)] }
BodiesWithOptions ==
  { [caps |-> b.caps, render |-> b.render, preferred |-> b.preferred,
     missing |-> b.missing, sync |-> o.sync, x_cluster |-> o.x_cluster] :
      b \in Bodies, o \in ApplyOptions }

InitApplyOptions == InitApplyWith(BodiesWithOptions)

NextApply ==
  \/ ApplyAuthorizeRaises \/ ApplyNoRoles \/ ApplyNotOperator
  \/ ApplyMissingKey \/ ApplyInvalidBody \/ ApplyDelegate
  \/ BuildClientsOk \/ BuildClientsRaises
  \/ ListUsersRaises \/ ListUsersFound \/ ListUsersNotFound \/ SelectFallback
  \/ SubvolInfoSourceRaises \/ ResolveSourceRaises \/ RenderSourceRaises
  \/ ResolveSourceOk
  \/ UpdateSourceRaises \/ UpdateSourceOk \/ UpdateSourceRejected
  \/ CreateSourceRaises \/ CreateSourceOk
  \/ ExportOk \/ ExportRaises
  \/ LoopEnd \/ LoopSkipSource \/ LoopNoKeyring
  \/ SshConnectRaises \/ SshConnectOk \/ SshPutRaises \/ SshPutOk
  \/ SshImportRaises \/ SshImportOk \/ SshRemove
  \/ SubvolInfoHereRaises \/ ResolveHereRaises \/ ResolveHereOk
  \/ UpdateHereRaises \/ UpdateHereOk \/ UpdateHereRejected
  \/ ApplyRespond \/ ApplyRespondError

SpecApplyOptions == InitApplyOptions /\ [][NextApply]_vars

\* a request for one of the operator-only handlers arrives
Init == InitApply \/ InitUser

Next ==
  \/ UserAuthorizeRaises \/ UserNoRoles \/ UserNotOperator
  \/ UserOrchestrate \/ UserListDelegate
  \/ ListBuildOk \/ ListBuildRaises \/ ListTryOk \/ ListTryRaises \/ ListAllFailed
  \/ UserRespond \/ UserRespondError
  \/ ApplyAuthorizeRaises \/ ApplyNoRoles \/ ApplyNotOperator
  \/ ApplyMissingKey \/ ApplyInvalidBody \/ ApplyDelegate
  \/ BuildClientsOk \/ BuildClientsRaises
  \/ ListUsersRaises \/ ListUsersFound \/ ListUsersNotFound \/ SelectFallback
  \/ SubvolInfoSourceRaises \/ ResolveSourceRaises \/ RenderSourceRaises
  \/ ResolveSourceOk
  \/ UpdateSourceRaises \/ UpdateSourceOk \/ UpdateSourceRejected
  \/ CreateSourceRaises \/ CreateSourceOk
  \/ ExportOk \/ ExportRaises
  \/ LoopEnd \/ LoopSkipSource \/ LoopNoKeyring
  \/ SshConnectRaises \/ SshConnectOk \/ SshPutRaises \/ SshPutOk
  \/ SshImportRaises \/ SshImportOk \/ SshRemove
  \/ SubvolInfoHereRaises \/ ResolveHereRaises \/ ResolveHereOk
  \/ UpdateHereRaises \/ UpdateHereOk \/ UpdateHereRejected
  \/ ApplyRespond \/ ApplyRespondError

Spec == Init /\ [][Next]_vars

NextExport ==
  \/ ExportAuthorizeRaises \/ ExportNoRoles \/ ExportUnauthorized \/ ExportDelegate

SpecExport == InitExport /\ [][NextExport]_vars

\* ============================================================ claims
Returned == pc \in {"return", "done"} /\ source_name # NoneV
SourceStepFailed ==
  source_name # NoneV /\ errors[source_name] = "source update/create failed"
SourceStepDone ==
  source_name # NoneV /\ updated_on_source /\ caps_applied[source_name] # <<>>
MutatingCalls == {"ssh_connect", "ssh_open", "ssh_put", "ssh_import", "ssh_rm",
                  "update", "create"}
SshCalls == {"ssh_connect", "ssh_open", "ssh_put", "ssh_import", "ssh_rm", "ssh_close"}
RaiseMarks == {"ssh_raised", "resolve_raised", "update_raised"}
Others == clients \ {source_name}
NoErrors == \A c \in clients : errors[c] = NoneV

\* C1: once a source cluster is chosen it is a configured cluster, and it is
\* the first cluster in configured order whose user list contained the entity
\* (whatever preferred_source is); if no list contained it, it is
\* preferred_source when that names a configured cluster, and otherwise the
\* first configured cluster.  A list contains the entity only when its cluster
\* holds it, every cluster before the source was asked and its list did not
\* contain the entity, and when no list contained it every cluster was asked.
C1_SourceSelection ==
  source_name # NoneV =>
    LET has == {k \in 1..Len(cfg) : listed[cfg[k]] = "has"} IN
    /\ source_name \in clients
    /\ has # {} => /\ source_name = cfg[CHOOSE k \in has : \A j \in has : k <= j]
                   /\ Cardinality(has) = 1
    /\ has = {} /\ body.preferred \in clients => source_name = body.preferred
    /\ has = {} /\ body.preferred \notin clients => source_name = cfg[1]
    /\ pc = "resolve_src" =>
         /\ \A c \in clients : listed[c] = "has" => dbSecret[c] # 0
         /\ has # {} =>
              \A k \in 1..Len(cfg) :
                /\ k < IndexOf(cfg, source_name) => listed[cfg[k]] \in {"hasnot", "raised"}
                /\ k > IndexOf(cfg, source_name) => listed[cfg[k]] = NoneV
         /\ has = {} => \A c \in clients : listed[c] \in {"hasnot", "raised"}

\* the example of the specification: the entity is on b only, c is preferred
C1_Witness ==
  /\ pc = "done" /\ cfg = <<"a", "b", "c">> /\ body.preferred = "c"
  /\ listed = [c \in clients |-> IF c = "b" THEN "has" ELSE IF c = "a" THEN "hasnot" ELSE NoneV]
  /\ source_name = "b"

\* C2: no cluster other than the source receives an SSH import, a create or a
\* capability overwrite unless the source's update-or-create step has
\* completed successfully; and when the source step failed the run is over:
\* no other cluster got any call beyond login and list, imported_to is empty
\* and errors has the entry of the source cluster, and of no other.
C2_SourceFirst ==
  /\ \A c \in clients :
       c # source_name /\ calls[c] \cap (MutatingCalls \cup {"resolve"}) # {}
         => SourceStepDone
  /\ SourceStepFailed =>
       /\ pc \in {"return", "done"}
       /\ imported_to = <<>>
       /\ \A c \in Others : calls[c] \subseteq {"login", "list"} /\ errors[c] = NoneV
       /\ ~updated_on_source /\ caps_applied[source_name] = <<>>
       /\ pc = "done" =>
            /\ response.has_result /\ response.result.imported_to = <<>>
            /\ response.result.errors[source_name] # NoneV

C2_Witness ==
  /\ pc = "done" /\ Len(cfg) = 3 /\ SourceStepFailed
  /\ "create" \in calls[source_name] /\ source_name = "b"

\* C3 as stated: after a successful source step, a failure of the import,
\* of the path resolution or of the capability overwrite on a cluster other
\* than the source (an exception, or an overwrite answered with a
\* non-success status) is recorded in errors under that cluster's name, and
\* when the run returns every cluster other than the source has been
\* processed: its SSH import or its path resolution was attempted, whatever
\* failed on the clusters before it.
C3_AsStated ==
  /\ \A c \in clients :
       c # source_name /\ calls[c] \cap (RaiseMarks \cup {"update_rejected"}) # {}
         => errors[c] # NoneV
  /\ Returned /\ SourceStepDone =>
       \A c \in Others : calls[c] \cap {"ssh_connect", "resolve"} # {}
  /\ pc \in {"loop", "ssh_put", "ssh_import", "ssh_rm", "resolve_here", "update_here"} =>
       \A k \in 1..Len(cfg) :
         k < i /\ cfg[k] # source_name => calls[cfg[k]] \cap {"ssh_connect", "resolve"} # {}

OverwriteFailed(c) == "update_raised" \in calls[c]
StepRaised(c) == calls[c] \cap RaiseMarks # {}
StepFullySucceeded(c) ==
  "update" \in calls[c] /\ ~StepRaised(c) /\ "update_rejected" \notin calls[c]
ImportCompleted(c) == "ssh_rm" \in calls[c]
NoDuplicates(seq) == \A j, k \in 1..Len(seq) : seq[j] = seq[k] => j = k

\* C4 as stated: when the source step succeeded and the run has returned, a
\* cluster whose capability overwrite failed is not in imported_to, every
\* cluster whose step fully succeeded is in imported_to, and errors has an
\* entry for exactly the clusters on which something failed.
C4_AsStated ==
  Returned /\ SourceStepDone =>
    /\ \A c \in Others : OverwriteFailed(c) => c \notin Range(imported_to)
    /\ keyring_bytes # NoKeyring =>
         \A c \in Others : StepFullySucceeded(c) => c \in Range(imported_to)
    /\ \A c \in Others : errors[c] # NoneV <=> StepRaised(c)
    /\ errors[source_name] # NoneV <=> keyring_bytes = NoKeyring

\* C4 amended: when the source step succeeded and the run has returned, a
\* cluster other than the source is in imported_to exactly when its keyring
\* import completed, also when its later path resolution or capability
\* overwrite failed; when the keyring was exported, every cluster whose step
\* fully succeeded is in imported_to; imported_to names no cluster twice; and
\* errors has an entry for exactly the other clusters whose step raised a
\* failure, and for the source exactly when the keyring export failed.
C4_ImportedTo ==
  Returned /\ SourceStepDone =>
    /\ \A c \in Others : c \in Range(imported_to) <=> ImportCompleted(c)
    /\ \A c \in Others :
         OverwriteFailed(c) /\ keyring_bytes # NoKeyring => c \in Range(imported_to)
    /\ keyring_bytes # NoKeyring =>
         \A c \in Others : StepFullySucceeded(c) => c \in Range(imported_to)
    /\ source_name \notin Range(imported_to) /\ NoDuplicates(imported_to)
    /\ \A c \in Others : errors[c] # NoneV <=> StepRaised(c)
    /\ errors[source_name] # NoneV <=> keyring_bytes = NoKeyring

\* the example of the specification: a is the source, the overwrite fails on b
C4_Witness ==
  /\ pc = "done" /\ cfg = <<"a", "b", "c">> /\ source_name = "a"
  /\ OverwriteFailed("b") /\ StepFullySucceeded("c")
  /\ imported_to = <<"b", "c">>
  /\ errors = [c \in clients |-> IF c = "b" THEN "update_user_caps failed" ELSE NoneV]

\* C5 as stated: the answer to a templated apply whose orchestration returned
\* is 500 when errors is non-empty and 200 only when errors is empty, and it
\* carries the result either way.
C5_AsStated ==
  pc = "done" /\ source_name # NoneV =>
    /\ response.has_result
    /\ ~NoErrors => response.status = 500
    /\ response.status = 200 => NoErrors

\* C6: when a run returns with an empty errors map, imported_to holds exactly
\* the configured clusters other than the source (in configured order), and
\* each of them holds for the entity the secret the source exported in this
\* run, which is the secret the source holds.
C6_SameSecret ==
  Returned /\ NoErrors =>
    /\ Range(imported_to) = Others
    /\ \A j, k \in 1..Len(imported_to) :
         j < k => IndexOf(cfg, imported_to[j]) < IndexOf(cfg, imported_to[k])
    /\ keyring_bytes # NoKeyring /\ keyring_bytes.key # 0
    /\ keyring_bytes.key = dbSecret[source_name]
    /\ \A c \in Others : dbSecret[c] = keyring_bytes.key

\* b is the source; a and c held no user or a secret of their own before
C6_Witness ==
  /\ pc = "done" /\ cfg = <<"a", "b", "c">> /\ source_name = "b" /\ NoErrors
  /\ imported_to = <<"a", "c">>
  /\ dbSecret = [c \in clients |-> OwnSecret("b")]

\* what a {field} of a template stands for on a cluster
ExpectedPiece(piece, c) ==
  IF ~piece.field THEN piece.text
  ELSE CASE piece.text = "fs" -> "CEPH-FS-01"
         [] piece.text = "path" -> PathOf(c)
         [] piece.text = "group" -> ""
         [] piece.text = "subvol" -> "project123"

\* C7: every entry of caps_applied is the template list rendered for that
\* cluster: as many entries as the template, in its order, each with the
\* template's entity, and each cap the template's cap with the fields
\* replaced, {path} by the subvolume path of that very cluster.
C7_RenderedPerCluster ==
  \A c \in clients :
    caps_applied[c] # <<>> =>
      /\ Len(caps_applied[c]) = Len(body.caps.items)
      /\ \A k \in 1..Len(body.caps.items) :
           /\ caps_applied[c][k].entity = body.caps.items[k].entity
           /\ Len(caps_applied[c][k].cap) = Len(body.caps.items[k].cap)
           /\ \A j \in 1..Len(body.caps.items[k].cap) :
                caps_applied[c][k].cap[j] = ExpectedPiece(body.caps.items[k].cap[j], c)

C7_Witness ==
  /\ pc = "done" /\ cfg = <<"a", "b", "c">> /\ source_name = "b"
  /\ \A c \in clients : caps_applied[c] # <<>>
  /\ caps_applied["c"][2].cap =
       <<"allow rw fsname=", "CEPH-FS-01", " path=", "/volumes/_nogroup/project123/c">>

ExportFailed == source_name # NoneV /\ errors[source_name] = "export failed"

\* C8: when the keyring export failed after a successful source step, the run
\* goes on: the failure is in errors under the source, no SSH call is made to
\* any cluster and imported_to stays empty, and when the run returns the
\* capability overwrite has been attempted on every other cluster (its path
\* was asked for, and update_user_caps was called unless that raised).
C8_ExportFailure ==
  ExportFailed =>
    /\ SourceStepDone /\ keyring_bytes = NoKeyring
    /\ imported_to = <<>>
    /\ \A c \in clients : calls[c] \cap SshCalls = {}
    /\ pc \in {"loop", "resolve_here", "update_here", "return", "done"}
    /\ Returned =>
         \A c \in Others :
           /\ "resolve" \in calls[c]
           /\ "update" \in calls[c] \/ "resolve_raised" \in calls[c]

C8_Witness ==
  /\ pc = "done" /\ cfg = <<"a", "b", "c">> /\ ExportFailed /\ source_name = "a"
  /\ \A c \in Others : "update" \in calls[c] /\ caps_applied[c] # <<>>
  /\ response.result.imported_to = <<>>

\* C9 as stated: on every cluster, once the keyring has been written to the
\* temporary remote path and the SSH session has ended, the removal of the
\* file has been executed, whether auth import succeeded or failed.
C9_AsStated ==
  \A c \in clients :
    "ssh_put" \in calls[c] /\ "ssh_close" \in calls[c] => "ssh_rm" \in calls[c]

\* the caller's login matches the entity: the test of line 134, a
\* case-insensitive containment of the login in the entity name
MatchesOwnLogin(login, entity) == In(lower(login), lower(entity))

\* C10 as stated: on the export endpoint a caller whose token is valid and who is not
\* an operator is answered 401, and the export over the clusters is not
\* reached, when one entity is requested that does not match the caller's own
\* login, and whenever more than one entity is requested.
C10_AsStated ==
  /\ xpc = "done" /\ ~TokenRaises(xcaller) /\ ~IsOperator(xcaller)
     /\ \/ Len(entities) = 1 /\ ~MatchesOwnLogin(bastion_login, entities[1])
        \/ Len(entities) > 1
     => xresponse = 401 /\ ~xreached
  /\ xreached => xpc = "done" /\ ~TokenRaises(xcaller)

\* C11 as stated: on the export endpoint a caller with the operator role who
\* asks for one or more entities is never answered 401 by the authorization
\* step, whether or not an entity matches the operator's own login.
C11_AsStated ==
  xpc = "done" /\ IsOperator(xcaller) /\ Len(entities) >= 1 => xresponse # 401

NoContact == \A c \in clients : calls[c] = {}
\* the caller is one the operator-only handlers must turn away: the token
\* validator refused the token as unauthenticated, the principal has no role,
\* or it has roles but not the operator role
TurnedAway(who, raised) ==
  \/ TokenRaises(who) /\ raised.is_ceph /\ raised.code = 401
  \/ ~TokenRaises(who) /\ EmptyRoles(who)
  \/ TokenOk(who) /\ ~IsOperator(who)

\* C12 as stated: in the templated apply and in list users, update user and delete
\* user, a caller whose token is refused, who has no role or who lacks the
\* operator role is answered 401, and for a caller who is not an operator no
\* cluster is ever contacted (no Dashboard login, no user or capability call,
\* no SSH session): the authorization precedes the orchestration.
C12_AsStated ==
  /\ pc # "idle" /\ ~IsOperator(caller) => NoContact
  /\ uop \in UserOps /\ ~IsOperator(ucaller) => NoContact
  /\ pc = "done" /\ TurnedAway(caller, exc) =>
       response.status = 401 /\ ~response.has_result
  /\ uop \in UserOps /\ upc = "done" /\ TurnedAway(ucaller, uexc) => uresponse = 401

BodyInvalid ==
  \/ "template_capabilities" \in body.missing
  \/ body.missing = {} /\ (TemplateInvalid(body.caps) \/ RenderInvalid(body.render))

\* C13 as stated: an operator's templated apply whose template_capabilities
\* is missing, empty or not a list, or whose render lacks fs_name or
\* subvol_name, is answered 400 and no cluster is contacted; a caller who is
\* not an operator is answered 401 for the same body.
C13_AsStated ==
  pc = "done" /\ TokenOk(caller) /\ BodyInvalid =>
    /\ IsOperator(caller) => response.status = 400 /\ NoContact
    /\ ~IsOperator(caller) => response.status = 401

ListFailed == uexc # NoExc
ListReturnedFrom(c) ==
  /\ "list" \in calls[c] /\ "list_raised" \notin calls[c]
  /\ \A d \in clients :
       /\ IndexOf(cfg, d) < IndexOf(cfg, c) => "list_raised" \in calls[d]
       /\ IndexOf(cfg, d) > IndexOf(cfg, c) => "list" \notin calls[d]

\* C16 as stated: list_users_first_success returns the list and the name of
\* the first cluster in configured order whose list call succeeds, and calls
\* no later cluster; it fails exactly when the list call failed on every
\* configured cluster, and the failure then names every cluster's error.
C16_AsStated ==
  uop = "list_users" /\ upc \in {"return", "raised"} =>
    /\ ~ListFailed => uresult.cluster \in clients /\ ListReturnedFrom(uresult.cluster)
    /\ ListFailed <=> \A c \in clients : "list_raised" \in calls[c]
    /\ ListFailed => \A c \in clients : uerrors[c] # NoneV

\* C20 as stated: when the login to one cluster's Dashboard fails in the
\* templated apply or in list users, the failure is kept as that cluster's
\* error and the other configured clusters are still worked on.
C20_AsStated ==
  \A c \in clients :
    "login_raised" \in calls[c] =>
      /\ pc = "done" => errors[c] # NoneV /\ response.has_result
      /\ upc = "done" => uerrors[c] # NoneV
      /\ pc = "done" \/ upc = "done" => \A d \in clients : "login" \in calls[d]

\* C19 as stated: an export request with an empty entity list is answered
\* 400 as invalid input.
C19_AsStated ==
  xpc = "done" /\ TokenOk(xcaller) /\ Len(entities) = 0 => xresponse = 400

Exported(c) ==
  {ent \in Range(uin.entities) : uresult.result[c].exported[ent] # Absent}
FirstExporting ==
  {c \in clients : Exported(c) # {}
     /\ \A d \in clients : IndexOf(cfg, d) < IndexOf(cfg, c) => Exported(d) = {}}

\* C14 as stated: when export_users_first_success returns, its result comes
\* from one cluster only, the first in configured order that exported
\* something, and no export call was issued to any cluster after it.
C14_AsStated ==
  uop = ExportFn /\ upc = "return" /\ FirstExporting # {} =>
    \E c \in FirstExporting :
      /\ \A d \in clients : uresult.result[d].set => d = c
      /\ \A d \in clients : IndexOf(cfg, d) > IndexOf(cfg, c) => "export" \notin calls[d]

\* C15 as stated: with a non-empty entity list export_users_first_success
\* fails exactly when no configured cluster exported any requested entity;
\* when every export call failed on every cluster it returns no result.
C15_AsStated ==
  uop = ExportFn /\ upc \in {"return", "raised"} /\ uin.entities # <<>> =>
    (upc = "raised" <=> \A c \in clients : Exported(c) = {})

\* The names a header text asks for, read off the text directly: its pieces
\* lie between consecutive commas (and the ends of the text); a piece asks
\* for cluster c when c is its only character besides blanks.
Cuts(text) == {0, Len(text) + 1} \cup {p \in 1..Len(text) : text[p] = ","}
NthCut(text, n) ==
  CHOOSE p \in Cuts(text) : Cardinality({q \in Cuts(text) : q < p}) = n - 1
PieceAsks(text, n, c) ==
  LET lo == NthCut(text, n)
      hi == NthCut(text, n + 1)
      marks == {p \in (lo + 1)..(hi - 1) : text[p] # " "}
  IN Cardinality(marks) = 1 /\ \A p \in marks : text[p] = c
RECURSIVE AskedFrom(_, _, _)
AskedFrom(text, n, config) ==
  IF n >= Cardinality(Cuts(text)) THEN <<>>
  ELSE LET here == {c \in Range(config) : PieceAsks(text, n, c)}
       IN (IF here = {} THEN <<>> ELSE <<CHOOSE c \in here : TRUE>>)
            \o AskedFrom(text, n + 1, config)

\* C17: for every header and every non-empty configuration,
\* ordered_cluster_names returns the configured clusters the header names, in
\* header order and without the unknown names, when there is at least one;
\* it returns all configured clusters in configuration order when the header
\* is absent, empty or names only unknown clusters.  The result is never
\* empty and holds configured names only.
C17_OrderedNames ==
  uop = "ordered_cluster_names" /\ upc = "return" =>
    LET asked == IF uin.header.present
                   THEN AskedFrom(uin.header.text, 1, cfg) ELSE <<>>
    IN /\ asked # <<>> => uresult = asked
       /\ asked = <<>> => uresult = cfg
       /\ uresult # <<>> /\ Range(uresult) \subseteq Range(cfg)

\* "z,b,a" on clusters a, b, c: header order, the unknown name dropped
C17_Witness ==
  /\ uop = "ordered_cluster_names" /\ upc = "return" /\ cfg = <<"a", "b", "c">>
  /\ uin.header.present /\ uin.header.text = <<"z", ",", "b", ",", "a">>
  /\ uresult = <<"b", "a">>

FetchFailed(c) == "info_raised" \in calls[c]

\* C18 as stated: GET /cluster/info answers 200 with exactly one item per
\* configured cluster in configured order, also when the fsid or the
\* monitor-map fetch fails on some clusters: the item of a cluster whose
\* fetch failed carries a non-empty error and no mons, the item of a cluster
\* whose fetch succeeded carries error = null.
C18_AsStated ==
  uop = InfoOp /\ upc = "done" =>
    /\ uresponse = 200 /\ Len(uresult) = Len(cfg)
    /\ \A n \in 1..Len(uresult) :
         /\ uresult[n].cluster = cfg[n]
         /\ FetchFailed(cfg[n]) =>
              /\ uresult[n].error # NoneV /\ uresult[n].error # ""
              /\ uresult[n].mons = <<>>
         /\ ~FetchFailed(cfg[n]) => uresult[n].error = NoneV

YamlOf(field) == Or(uin.dashboard[field], uin.rgw_admin[field])

\* C21: each SSH parameter has the value of the first source that defines
\* it, in the order environment variable, YAML (dashboard, then RGW admin),
\* default (endpoint hostname, 22, root, ~/.ssh/id_rsa); and when a password
\* is resolved no key path is returned.
C21_AsStated ==
  uop = SshParamsFn /\ upc = "return" =>
    /\ uresult.host = IF uin.env.HOST # Unset THEN uin.env.HOST
                      ELSE Or(uin.hostname, "localhost")
    /\ uresult.user = IF uin.env.USER # Unset THEN uin.env.USER
                      ELSE IF Truthy(YamlOf("ssh_user")) THEN YamlOf("ssh_user")
                      ELSE "root"
    /\ Truthy(uresult.password) => uresult.key_path = NoneV
    /\ ~Truthy(uresult.password) =>
         uresult.key_path =
           IF uin.env.KEY # Unset THEN expanduser(uin.env.KEY)
           ELSE IF Truthy(YamlOf("ssh_key")) THEN YamlOf("ssh_key")
           ELSE Home \o "/.ssh/id_rsa"
    /\ uin.env.PORT # Unset => uresult.port = int(uin.env.PORT)

\* C22: on the source the update is attempted first and a create only after
\* the update reported a non-success status.  updated_on_source is true
\* exactly when the update or the fallback create succeeded (the source then
\* holds the entity with the rendered capabilities), created_on_source is
\* true exactly when the fallback create was performed and succeeded,
\* created_on_source implies updated_on_source, and both flags are false in
\* every result of a source-step failure.
C22_SourceFlags ==
  source_name # NoneV =>
    /\ \A c \in clients :
         "create" \in calls[c] => c = source_name /\ "update" \in calls[c]
    /\ updated_on_source /\ ~created_on_source => "create" \notin calls[source_name]
    /\ created_on_source <=>
         "create" \in calls[source_name] /\ ~SourceStepFailed
    /\ created_on_source => updated_on_source
    /\ updated_on_source =>
         /\ dbSecret[source_name] # 0
         /\ caps_applied[source_name] # <<>>
         /\ dbCaps[source_name] = caps_applied[source_name]
    /\ SourceStepFailed => ~created_on_source /\ ~updated_on_source
    /\ Returned /\ ~SourceStepFailed => updated_on_source

\* the update was rejected and the create succeeded; in another run the
\* create failed after a rejected update
C22_Witness ==
  /\ pc = "done" /\ response.status = 200
  /\ created_on_source /\ updated_on_source
  /\ {"update", "create"} \subseteq calls[source_name]
  /\ Len(cfg) = 3 /\ source_name = cfg[3] /\ body.preferred = cfg[3]

OverwriteRejected(c) == "update_rejected" \in calls[c]

\* C23: when the capability overwrite on a non-source cluster was answered
\* with a non-success status, errors holds an entry under that cluster, as
\* it does when the same step raised.
C23_AsStated ==
  \A c \in clients :
    /\ OverwriteFailed(c) /\ pc \in {"loop", "return", "done"} => errors[c] # NoneV
    /\ OverwriteRejected(c) => errors[c] # NoneV

Reduced(v) == v.entity = "" /\ Truthy(v.key)

\* C24: in keyring-only mode every value of the returned export map is the
\* reduced form of the exported keyring; a keyring without key material is
\* recorded as a failure of its cluster and its unreduced text is not in the
\* result.
C24_AsStated ==
  uop = ExportFn /\ upc = "return" /\ uin.keyring_only =>
    \A c \in clients :
      /\ "key_raised" \in calls[c] => uerrors[c] # NoneV
      /\ \A ent \in Range(uin.entities) :
           uresult.result[c].exported[ent] # Absent =>
             Reduced(uresult.result[c].exported[ent])

InFlight(r) == runs[r].pc \in {"ssh_import", "ssh_rm"}

\* C25: two apply runs in the same server process never have the same
\* remote path in flight on the same cluster, and the file a run imports is
\* the keyring that run wrote: no write or cleanup of the other run reaches
\* it.
C25_AsStated ==
  \A r, q \in Runs :
    r # q /\ runs[r].pid = runs[q].pid =>
      /\ InFlight(r) /\ InFlight(q) /\ Here(r) = Here(q) =>
           PathOfRun(r) # PathOfRun(q)
      /\ runs[r].pc = "ssh_import" =>
           remoteFiles[Here(r)][PathOfRun(r)] = runs[r].keyring_bytes

BothDoneWithoutErrors ==
  \A r \in Runs : runs[r].pc = "done" /\ runs[r].errors = NoErrorsYet

\* C28: when two concurrent apply runs for the same entity have both
\* returned with an empty errors map, every configured cluster holds the
\* same secret for that entity.
C28_AsStated ==
  runs[1].user_entity = runs[2].user_entity /\ BothDoneWithoutErrors =>
    \A c, d \in clients :
      authDb[c][runs[1].user_entity] = authDb[d][runs[1].user_entity]

HeaderNames == Range(ordered_cluster_names(cfg, body.x_cluster))
Scoped == body.x_cluster.present /\ HeaderNames # clients

\* C26: when the apply request carries an X-Cluster header that names some
\* of the configured clusters, only the named clusters are contacted and the
\* source is one of them.
C26_AsStated ==
  pc \in {"return", "done"} /\ Scoped =>
    /\ \A c \in clients \ HeaderNames : calls[c] = {}
    /\ source_name # NoneV => source_name \in HeaderNames

\* C30: when the apply request sets sync_across_clusters to false, only the
\* source is modified: no SSH call and no capability overwrite reaches any
\* other cluster, and imported_to is empty.
C30_AsStated ==
  pc \in {"return", "done"} /\ ~body.sync /\ source_name # NoneV =>
    /\ \A c \in Others : calls[c] \cap MutatingCalls = {}
    /\ imported_to = <<>>


\* the import on a non-source cluster failed: connect, put_bytes or auth import
ImportFailed(c) == "ssh_raised" \in calls[c]
OverwriteStarted(c) == calls[c] \cap {"resolve", "update"} # {}

\* C27: within one run, on every non-source cluster the keyring import (when
\* keyring bytes exist) is complete before that cluster's path resolution
\* and capability overwrite begin; when the import fails, neither the path
\* resolution nor the overwrite is attempted on that cluster and the cluster
\* gets no entry in caps_applied.
C27_ImportBeforeOverwrite ==
  source_name # NoneV =>
    \A c \in Others :
      /\ keyring_bytes # NoKeyring /\ OverwriteStarted(c) =>
           /\ {"ssh_put", "ssh_import", "ssh_rm"} \subseteq calls[c]
           /\ c \in Range(imported_to)
           /\ ~tmpFile[c]
      /\ ImportFailed(c) =>
           /\ ~OverwriteStarted(c)
           /\ caps_applied[c] = <<>>
           /\ c \notin Range(imported_to)
           /\ errors[c] # NoneV

C27_Witness ==
  /\ pc = "done" /\ cfg = <<"a", "b", "c">> /\ source_name = "a"
  /\ keyring_bytes # NoKeyring
  /\ "ssh_import" \in calls["b"] /\ ImportFailed("b") /\ caps_applied["b"] = <<>>
  /\ ImportCompleted("c") /\ "update" \in calls["c"] /\ caps_applied["c"] # <<>>

\* C29: in a result whose source step succeeded, every configured cluster
\* has an entry in caps_applied or in errors, and a cluster whose errors
\* entry comes from a failed overwrite has no entry in caps_applied.
C29_AsStated ==
  Returned /\ ~SourceStepFailed /\ source_name # NoneV =>
    /\ \A c \in clients : caps_applied[c] # <<>> \/ errors[c] # NoneV
    /\ \A c \in Others : OverwriteFailed(c) /\ errors[c] # NoneV => caps_applied[c] = <<>>

====
